---- MODULE Spec2Model ----
(***************************************************************************)
(* The canvas state engine of the whiteboard: the zustand store            *)
(* useCanvasStore (element store, history manager, persistence load).      *)
(* Every store method is one action; arrays are 1-based sequences, so the  *)
(* code's history[historyIndex] is history[historyIndex + 1] here.         *)
(***************************************************************************)
EXTENDS Integers, Sequences, FiniteSets, TLC

\* ---------------------------------------------------------------- bounds
\* number of nanoid() calls explored
MaxIds == 2
\* longest history explored
MaxHistory == 2
\* longest points array explored (numbers, two per sample)
MaxPoints == 4
\* number of pan and zoom steps explored
MaxGestures == 2
\* how many samples beyond the decimation threshold the longest stroke has
MaxExtraSamples == 1

\* ------------------------------------------------------- program constants
DEFAULT_COLORS ==
  [sticky  |-> <<"#FFFA8D", "#FFC582", "#FF9B93", "#B5DCFF", "#9DFFB3">>,
   shapes  |-> <<"#FFFFFF", "#F5F5F5", "#E9ECEF", "#DEE2E6", "#CED4DA">>,
   strokes |-> <<"#212529", "#495057", "#6C757D", "#ADB5BD">>,
   text    |-> "#000000"]

\* The numbers of the viewport (zoomLevel, viewportPosition, pointer and
\* document coordinates) are fractions n / d in lowest terms with d > 0, so
\* that *, / and the comparisons are those of the real numbers; the rounding
\* of the floating-point operations is not modelled.
Abs(k) == IF k < 0 THEN -k ELSE k

RECURSIVE GCD(_, _)
GCD(a, b) == IF b = 0 THEN a ELSE GCD(b, a % b)

Rat(n, d) ==
  LET g == GCD(Abs(n), Abs(d))
      s == IF d < 0 THEN -1 ELSE 1
  IN [n |-> (s * n) \div g, d |-> (s * d) \div g]

Num(k) == [n |-> k, d |-> 1]

\* a + b
RAdd(a, b) ==
  LET g == GCD(a.d, b.d)
  IN Rat(a.n * (b.d \div g) + b.n * (a.d \div g), (a.d \div g) * b.d)

\* a - b
RSub(a, b) == RAdd(a, [n |-> -b.n, d |-> b.d])

\* a * b
RMul(a, b) ==
  LET g1 == GCD(Abs(a.n), b.d)
      g2 == GCD(Abs(b.n), a.d)
  IN [n |-> (a.n \div g1) * (b.n \div g2), d |-> (a.d \div g2) * (b.d \div g1)]

\* a / b, for b # 0
RDiv(a, b) ==
  RMul(a, IF b.n > 0 THEN [n |-> b.d, d |-> b.n] ELSE [n |-> -b.d, d |-> -b.n])

\* a <= b
RLe(a, b) == a.n * b.d <= b.n * a.d

\* Math.min(a, b), Math.max(a, b)
RMin(a, b) == IF RLe(a, b) THEN a ELSE b
RMax(a, b) == IF RLe(a, b) THEN b ELSE a

\* Math.sqrt(a), for the squares of fractions
RSqrt(a) ==
  [n |-> CHOOSE r \in 0..a.n : r * r = a.n,
   d |-> CHOOSE r \in 1..a.d : r * r = a.d]

\* the code's zoomLevel 1
ZoomOne == Num(1)
\* the zoom limits of the toolbar, the wheel and the pinch
MinZoom == Rat(1, 10)
MaxZoom == Num(5)
\* scaleBy of handleWheel, and the step of handleZoomIn / handleZoomOut
WheelScaleBy == Rat(105, 100)
ButtonScaleBy == Rat(11, 10)
\* MAX_PAN_DISTANCE
MAX_PAN_DISTANCE == Num(10000)

\* the offset duplicateElement adds to both coordinates
DuplicateOffset == 20

UnitTransform == [rotation |-> 0, scaleX |-> 1, scaleY |-> 1]

DEFAULT_ELEMENT ==
  [position |-> [x |-> 0, y |-> 0], size |-> [width |-> 100, height |-> 100],
   transform |-> UnitTransform, zIndex |-> 0]

\* ------------------------------------------------------------ input sets
\* null / undefined arguments
NoId == 0
Undefined == [undefined |-> TRUE]

\* ids written by an earlier session and found in storage
StoredId == 9

\* ids a caller may pass: every id nanoid can issue here, the stored one,
\* and so also ids that match no element
IdArgs == (1..MaxIds) \cup {StoredId}
\* ids offered to selectElement: null and the first id nanoid issues
SelectArgs == {NoId, 1}

Pos(x, y) == [x |-> x, y |-> y]
\* a screen or viewport position with whole coordinates
RPos(x, y) == Pos(Num(x), Num(y))
\* { x: 0, y: 0 } as a viewportPosition
Origin == RPos(0, 0)
PositionArgs == {Pos(0, 0)}
SizeArgs == {Undefined}
KindArgs == {"rectangle", "drawing"}
\* Math.random() picks any palette entry
StickyColorArgs == 1..Len(DEFAULT_COLORS.sticky)
ChangesArgs == {[position |-> Pos(50, 50)]}
PointArgs == {Pos(7, 7)}

\* ---------------------------------------------------------------- state
VARIABLES
  elements,          \* CanvasState.elements
  selectedIds,       \* CanvasState.selectedIds
  tool,              \* CanvasState.tool
  zoomLevel,         \* CanvasState.zoomLevel
  gridVisible,       \* CanvasState.gridVisible
  history,           \* CanvasState.history
  historyIndex,      \* CanvasState.historyIndex (0-based, -1 when empty)
  drawingColor,      \* CanvasState.drawingColor
  strokeWidth,       \* CanvasState.strokeWidth
  viewportPosition,  \* CanvasState.viewportPosition
  storage,           \* localStorage: the keys whiteboard, whiteboard_backup
                     \* and whiteboard_error_fallback
  nextId,            \* number of nanoid() calls so far, plus one
  dropped,           \* how many snapshots the last call discarded from history
  committed,         \* the last call ended by writing history (a commit or a seeding)
  ret,               \* the value the last call returned
  trip,              \* an undo() taken right after a commit, and the redo() after it
  board,             \* the refs of Board: isDrawingRef, currentDrawingId,
                     \* lastPointerPosition, isPanning, and the stage's
                     \* _lastPinchDistance and _pinchCenter
  gestures,          \* how many pan and zoom steps have been taken
  textBox,           \* the mounted TextBox: its state, refs and closures
  pc                 \* the store operation that has called set() and has
                     \* calls left to make, with its locals

NoTrip == [phase |-> "none"]
\* the refs as useRef() and the stage leave them before any event; a pinch
\* distance that is not set (undefined or 0) is 0, a missing center is null
InitialBoard ==
  [isDrawing |-> FALSE, currentDrawingId |-> NoId,
   lastPointerPosition |-> Origin, isPanning |-> FALSE,
   lastPinchDistance |-> Num(0), pinchCenter |-> Undefined]
NoRet == [undefined |-> TRUE]
\* no store operation is part-way through its set() calls
Idle == [op |-> "none"]
\* no TextBox component is mounted
NoTextBox == [mounted |-> FALSE]
doc == <<elements, selectedIds, history, historyIndex>>
view == <<tool, zoomLevel, gridVisible, drawingColor, strokeWidth, viewportPosition>>
vars == <<elements, selectedIds, tool, zoomLevel, gridVisible, history,
          historyIndex, drawingColor, strokeWidth, viewportPosition,
          storage, nextId, committed, dropped, ret, trip, board, gestures,
          textBox, pc>>

\* ------------------------------------------------------------- helpers
Ids(els) == {els[i].id : i \in DOMAIN els}
IdsOfSeq(s) == {s[i] : i \in DOMAIN s}

\* Array.prototype.filter(x => x.id !== id)
FilterOutId(els, id) == SelectSeq(els, LAMBDA e : e.id # id)
\* Array.prototype.filter(x => x !== id)
FilterOut(s, id) == SelectSeq(s, LAMBDA x : x # id)

\* { ...a, ...b }
Spread(a, b) ==
  [f \in (DOMAIN a) \cup (DOMAIN b) |-> IF f \in DOMAIN b THEN b[f] ELSE a[f]]

\* JSON.parse(JSON.stringify(elements)): a fresh array holding, for every
\* element, a fresh object with the same own properties.  Every value an
\* element holds here is a finite number, a string, or an object or array of
\* those, which the round trip reproduces.
JsonCloneElement(el) == [f \in DOMAIN el |-> el[f]]
JsonClone(els) == [i \in 1..Len(els) |-> JsonCloneElement(els[i])]

\* --------------------------------------------------- store computations
\* elements.find(el => el.id === id): the first match
Find(els, id) ==
  els[CHOOSE i \in DOMAIN els :
        els[i].id = id /\ \A j \in 1..(i - 1) : els[j].id # id]

\* the element createElement builds for each case of its switch
BuildElement(type, id, position, size, n, colorIdx, dColor, sWidth) ==
  LET defaultSize == IF size = Undefined THEN [width |-> 150, height |-> 150]
                     ELSE size
      base(t, sz) == [id |-> id, type |-> t, position |-> position,
                      size |-> sz, transform |-> UnitTransform, zIndex |-> n]
  IN CASE type = "sticky" ->
            Spread(base(type, defaultSize),
                   [text |-> "New Note",
                    color |-> DEFAULT_COLORS.sticky[colorIdx]])
       [] type = "text" ->
            Spread(base(type, [width |-> 200, height |-> 50]),
                   [text |-> "Text", fontSize |-> 20, fontFamily |-> "Arial",
                    fontStyle |-> "normal", fill |-> DEFAULT_COLORS.text])
       [] type \in {"rectangle", "ellipse"} ->
            Spread(base(type, defaultSize),
                   [fill |-> DEFAULT_COLORS.shapes[1],
                    stroke |-> DEFAULT_COLORS.strokes[1], strokeWidth |-> 2])
       [] type = "drawing" ->
            Spread(base(type, [width |-> 0, height |-> 0]),
                   [points |-> <<position.x, position.y>>,
                    stroke |-> dColor, strokeWidth |-> sWidth])
       [] OTHER ->
            Spread(base("image", defaultSize), [src |-> ""])

\* saveToHistory that forgets to move the cursor
HistoryAfterSave_CursorStays(els, hist, idx) ==
  [history |-> Append(SubSeq(hist, 1, idx + 1), JsonClone(els)),
   historyIndex |-> idx]

\* saveToHistory that appends without slicing off the redo entries
HistoryAfterSave_NoTruncate(els, hist, idx) ==
  [history |-> Append(hist, JsonClone(els)), historyIndex |-> idx + 1]

\* saveToHistory that puts an empty snapshot below the first one
HistoryAfterSave_SeedsEmpty(els, hist, idx) ==
  LET newHistory == IF hist = <<>> THEN <<<<>>>> ELSE SubSeq(hist, 1, idx + 1)
  IN [history |-> Append(newHistory, JsonClone(els)),
      historyIndex |-> Len(newHistory)]

\* the history and cursor saveToHistory leaves, given the state it reads
HistoryAfterSave(els, hist, idx) ==
  LET newHistory == SubSeq(hist, 1, idx + 1)
  IN [history |-> Append(newHistory, JsonClone(els)), historyIndex |-> idx + 1]

\* history[newIndex] || []
EntryOrEmpty(hist, newIndex) ==
  IF newIndex + 1 \in DOMAIN hist THEN hist[newIndex + 1] ELSE <<>>

\* how many snapshots beyond the cursor a saveToHistory slices off
Dropped(hist, idx) == Len(hist) - (idx + 1)

\* room for one more snapshot within the explored history length
CanCommit == historyIndex + 2 <= MaxHistory

\* --------------------------------------------------------------- actions
\* addElement that calls saveToHistory() before the set() that appends
AddElementResult_CommitFirst(element, els, hist, idx) ==
  LET h == HistoryAfterSave(els, hist, idx)
  IN [elements |-> Append(els, Spread(DEFAULT_ELEMENT, element)),
      history |-> h.history,
      historyIndex |-> h.historyIndex]

\* addElement without the saveToHistory() after the set()
AddElementResult_NoCommit(element, els, hist, idx) ==
  [elements |-> Append(els, Spread(DEFAULT_ELEMENT, element)),
   history |-> hist, historyIndex |-> idx]

\* addElement(element) as createElement calls it (element.id is set, so
\* nanoid() is not called again): the set() that appends
\* { ...DEFAULT_ELEMENT, ...element }, then saveToHistory()
AddElementResult(element, els, hist, idx) ==
  LET newElement == Spread(DEFAULT_ELEMENT, element)
      newEls == Append(els, newElement)
      h == HistoryAfterSave(newEls, hist, idx)
  IN [elements |-> newEls, history |-> h.history,
      historyIndex |-> h.historyIndex]

\* createElement(type, position, size)
createElement(type, position, size, colorIdx) ==
  /\ nextId <= MaxIds
  /\ CanCommit
  /\ LET id == nextId
         element == BuildElement(type, id, position, size, Len(elements),
                                 colorIdx, drawingColor, strokeWidth)
         r == AddElementResult(element, elements, history, historyIndex)
     IN /\ elements' = r.elements
        /\ history' = r.history
        /\ historyIndex' = r.historyIndex
        /\ nextId' = nextId + 1
        /\ ret' = [id |-> id]
  /\ committed' = TRUE
  /\ dropped' = Dropped(history, historyIndex)
  /\ trip' = NoTrip
  /\ UNCHANGED <<selectedIds, view, storage, board, gestures, textBox, pc>>

\* updateElement whose map() spreads the changes into every element
updateElement_EveryElement(id, changes) ==
  /\ elements' = [i \in 1..Len(elements) |-> Spread(elements[i], changes)]
  /\ committed' = FALSE
  /\ dropped' = 0
  /\ trip' = NoTrip
  /\ ret' = NoRet
  /\ UNCHANGED <<selectedIds, history, historyIndex, view, storage, nextId, board, gestures,
                 textBox, pc>>

updateElement(id, changes) ==
  /\ elements' = [i \in 1..Len(elements) |->
                    IF elements[i].id = id THEN Spread(elements[i], changes)
                    ELSE elements[i]]
  /\ committed' = FALSE
  /\ dropped' = 0
  /\ trip' = NoTrip
  /\ ret' = NoRet
  /\ UNCHANGED <<selectedIds, history, historyIndex, view, storage, nextId, board, gestures,
                 textBox, pc>>

\* the spread written last, so that the original's id wins
Duplicated_KeepsId(element, newId) ==
  Spread([id |-> newId,
          position |-> Pos(element.position.x + DuplicateOffset,
                           element.position.y + DuplicateOffset)],
         element)

\* the offset added to x only
Duplicated_OffsetXOnly(element, newId) ==
  Spread(element,
         [id |-> newId,
          position |-> Pos(element.position.x + DuplicateOffset,
                           element.position.y)])

\* { ...element, id: nanoid(), position: { x + 20, y + 20 } }
Duplicated(element, newId) ==
  Spread(element,
         [id |-> newId,
          position |-> Pos(element.position.x + DuplicateOffset,
                           element.position.y + DuplicateOffset)])

duplicateElement(id) ==
  /\ IF id \notin Ids(elements)
     THEN /\ UNCHANGED <<doc, nextId>>
          /\ committed' = FALSE
          /\ dropped' = 0
     ELSE /\ nextId <= MaxIds
          /\ CanCommit
          /\ LET element == Find(elements, id)
                 els == Append(elements, Duplicated(element, nextId))
                 h == HistoryAfterSave(els, history, historyIndex)
             IN /\ elements' = els
                /\ history' = h.history
                /\ historyIndex' = h.historyIndex
          /\ nextId' = nextId + 1
          /\ UNCHANGED selectedIds
          /\ committed' = TRUE
          /\ dropped' = Dropped(history, historyIndex)
  /\ trip' = NoTrip
  /\ ret' = NoRet
  /\ UNCHANGED <<view, storage, board, gestures, textBox, pc>>

\* removeElement that empties the selection instead of filtering it
removeElement_ClearsSelection(id) ==
  /\ CanCommit
  /\ LET els == FilterOutId(elements, id)
         h == HistoryAfterSave(els, history, historyIndex)
     IN /\ elements' = els
        /\ selectedIds' = <<>>
        /\ history' = h.history
        /\ historyIndex' = h.historyIndex
  /\ committed' = TRUE
  /\ dropped' = Dropped(history, historyIndex)
  /\ trip' = NoTrip
  /\ ret' = NoRet
  /\ UNCHANGED <<view, storage, nextId, board, gestures, textBox, pc>>

removeElement(id) ==
  /\ CanCommit
  /\ LET els == FilterOutId(elements, id)
         h == HistoryAfterSave(els, history, historyIndex)
     IN /\ elements' = els
        /\ selectedIds' = FilterOut(selectedIds, id)
        /\ history' = h.history
        /\ historyIndex' = h.historyIndex
  /\ committed' = TRUE
  /\ dropped' = Dropped(history, historyIndex)
  /\ trip' = NoTrip
  /\ ret' = NoRet
  /\ UNCHANGED <<view, storage, nextId, board, gestures, textBox, pc>>

clearSelection ==
  /\ selectedIds' = <<>>
  /\ committed' = FALSE
  /\ dropped' = 0
  /\ trip' = NoTrip
  /\ ret' = NoRet
  /\ UNCHANGED <<elements, history, historyIndex, view, storage, nextId, board, gestures,
                 textBox, pc>>

\* a multi-select that replaces the selection when it adds an id
SelectionAfter_MultiReplaces(sel, id, multi) ==
  IF id = NoId
  THEN <<>>
  ELSE IF multi
       THEN LET isSelected == id \in IdsOfSeq(sel)
            IN IF isSelected THEN FilterOut(sel, id) ELSE <<id>>
       ELSE <<id>>

\* the selection selectElement(id, multi) leaves
SelectionAfter(sel, id, multi) ==
  IF id = NoId
  THEN <<>>
  ELSE IF multi
       THEN LET isSelected == id \in IdsOfSeq(sel)
            IN IF isSelected THEN FilterOut(sel, id) ELSE Append(sel, id)
       ELSE <<id>>

selectElement(id, multi) ==
  /\ selectedIds' = SelectionAfter(selectedIds, id, multi)
  /\ committed' = FALSE
  /\ dropped' = 0
  /\ trip' = NoTrip
  /\ ret' = NoRet
  /\ UNCHANGED <<elements, history, historyIndex, view, storage, nextId, board, gestures,
                 textBox, pc>>

\* undo whose early return tests historyIndex < 0
UndoResult_NoFloor(els, sel, hist, idx) ==
  IF idx < 0
  THEN [elements |-> els, historyIndex |-> idx, selectedIds |-> sel]
  ELSE LET newIndex == idx - 1
       IN [elements |-> EntryOrEmpty(hist, newIndex),
           historyIndex |-> newIndex, selectedIds |-> <<>>]

\* undo that leaves the selection alone
UndoResult_KeepsSelection(els, sel, hist, idx) ==
  IF idx <= 0
  THEN [elements |-> els, historyIndex |-> idx, selectedIds |-> sel]
  ELSE LET newIndex == idx - 1
       IN [elements |-> EntryOrEmpty(hist, newIndex),
           historyIndex |-> newIndex, selectedIds |-> sel]

\* what undo() passes to set(), or the state as it is when it returns early
UndoResult(els, sel, hist, idx) ==
  IF idx <= 0
  THEN [elements |-> els, historyIndex |-> idx, selectedIds |-> sel]
  ELSE LET newIndex == idx - 1
       IN [elements |-> EntryOrEmpty(hist, newIndex),
           historyIndex |-> newIndex, selectedIds |-> <<>>]

undo ==
  /\ LET r == UndoResult(elements, selectedIds, history, historyIndex)
     IN /\ elements' = r.elements
        /\ historyIndex' = r.historyIndex
        /\ selectedIds' = r.selectedIds
  /\ UNCHANGED history
  /\ committed' = FALSE
  /\ dropped' = 0
  /\ trip' = IF committed THEN [phase |-> "undone", pre |-> elements]
             ELSE NoTrip
  /\ ret' = NoRet
  /\ UNCHANGED <<view, storage, nextId, board, gestures, textBox, pc>>

\* redo that reads history[historyIndex] instead of history[newIndex]
RedoResult_StaleEntry(els, sel, hist, idx) ==
  IF idx >= Len(hist) - 1
  THEN [elements |-> els, historyIndex |-> idx, selectedIds |-> sel]
  ELSE LET newIndex == idx + 1
       IN [elements |-> EntryOrEmpty(hist, idx),
           historyIndex |-> newIndex, selectedIds |-> <<>>]

\* redo whose early return tests historyIndex >= history.length
RedoResult_PastEnd(els, sel, hist, idx) ==
  IF idx >= Len(hist)
  THEN [elements |-> els, historyIndex |-> idx, selectedIds |-> sel]
  ELSE LET newIndex == idx + 1
       IN [elements |-> EntryOrEmpty(hist, newIndex),
           historyIndex |-> newIndex, selectedIds |-> <<>>]

\* what redo() passes to set(), or the state as it is when it returns early
RedoResult(els, sel, hist, idx) ==
  IF idx >= Len(hist) - 1
  THEN [elements |-> els, historyIndex |-> idx, selectedIds |-> sel]
  ELSE LET newIndex == idx + 1
       IN [elements |-> EntryOrEmpty(hist, newIndex),
           historyIndex |-> newIndex, selectedIds |-> <<>>]

redo ==
  /\ LET r == RedoResult(elements, selectedIds, history, historyIndex)
     IN /\ elements' = r.elements
        /\ historyIndex' = r.historyIndex
        /\ selectedIds' = r.selectedIds
  /\ UNCHANGED history
  /\ committed' = FALSE
  /\ dropped' = 0
  /\ trip' = IF trip.phase = "undone"
             THEN [phase |-> "redone", pre |-> trip.pre]
             ELSE NoTrip
  /\ ret' = NoRet
  /\ UNCHANGED <<view, storage, nextId, board, gestures, textBox, pc>>

saveToHistory ==
  /\ CanCommit
  /\ LET h == HistoryAfterSave(elements, history, historyIndex)
     IN /\ history' = h.history
        /\ historyIndex' = h.historyIndex
  /\ committed' = TRUE
  /\ dropped' = Dropped(history, historyIndex)
  /\ trip' = NoTrip
  /\ ret' = NoRet
  /\ UNCHANGED <<elements, selectedIds, view, storage, nextId, board, gestures,
                 textBox, pc>>

\* addPointToDrawing that puts the new sample in front of the path
addPointToDrawing_Prepends(id, point) ==
  /\ \A i \in DOMAIN elements :
       (elements[i].id = id /\ elements[i].type = "drawing")
         => Len(elements[i].points) + 2 <= MaxPoints
  /\ elements' = [i \in 1..Len(elements) |->
                    IF elements[i].id = id /\ elements[i].type = "drawing"
                    THEN Spread(elements[i],
                                [points |-> <<point.x, point.y>>
                                              \o elements[i].points])
                    ELSE elements[i]]
  /\ committed' = FALSE
  /\ dropped' = 0
  /\ trip' = NoTrip
  /\ ret' = NoRet
  /\ UNCHANGED <<selectedIds, history, historyIndex, view, storage, nextId, board, gestures,
                 textBox, pc>>

addPointToDrawing(id, point) ==
  /\ \A i \in DOMAIN elements :
       (elements[i].id = id /\ elements[i].type = "drawing")
         => Len(elements[i].points) + 2 <= MaxPoints
  /\ elements' = [i \in 1..Len(elements) |->
                    IF elements[i].id = id /\ elements[i].type = "drawing"
                    THEN Spread(elements[i],
                                [points |-> elements[i].points
                                              \o <<point.x, point.y>>])
                    ELSE elements[i]]
  /\ committed' = FALSE
  /\ dropped' = 0
  /\ trip' = NoTrip
  /\ ret' = NoRet
  /\ UNCHANGED <<selectedIds, history, historyIndex, view, storage, nextId, board, gestures,
                 textBox, pc>>

\* reset(): the set() that empties the document, then saveToHistory()
reset ==
  /\ LET h == HistoryAfterSave(<<>>, <<>>, -1)
     IN /\ elements' = <<>>
        /\ selectedIds' = <<>>
        /\ history' = h.history
        /\ historyIndex' = h.historyIndex
        /\ viewportPosition' = Origin
        /\ zoomLevel' = ZoomOne
  /\ committed' = TRUE
  /\ dropped' = 0
  /\ trip' = NoTrip
  /\ ret' = NoRet
  /\ UNCHANGED <<tool, gridVisible, drawingColor, strokeWidth, storage, nextId, board, gestures,
                 textBox, pc>>

\* ----------------------------------------------------------- persistence
\* what localStorage.getItem returns for a key: nothing, a string JSON.parse
\* rejects, the text of a value that loadStateFromJson cannot take apart
\* (null, or an object whose elements is not an array), or the text of an
\* object
Absent == [kind |-> "absent"]
Corrupt == [kind |-> "corrupt"]
Unusable == [kind |-> "unusable"]
Json(obj) == [kind |-> "json", value |-> obj]

\* el && typeof el === 'object' && 'id' in el && 'type' in el && 'position' in el
\* an entry that is null or not an object is written [primitive |-> TRUE]
IsValidElement_IdOnly(el) ==
  /\ "primitive" \notin DOMAIN el
  /\ "id" \in DOMAIN el
IsValidElement(el) ==
  /\ "primitive" \notin DOMAIN el
  /\ {"id", "type", "position"} \subseteq DOMAIN el

\* loadStateFromJson: the fields it passes to set(), or ok = FALSE when
\* JSON.parse throws
LoadStateFromJson_KeepsEmptySnapshot(jsonData) ==
  IF jsonData.kind # "json"
  THEN [ok |-> FALSE]
  ELSE LET parsed == jsonData.value
           persisted == IF "elements" \in DOMAIN parsed THEN parsed.elements
                        ELSE <<>>
           validElements == SelectSeq(persisted, IsValidElement)
       IN [ok |-> TRUE,
           elements |-> validElements,
           viewportPosition |->
             IF "viewportPosition" \in DOMAIN parsed
             THEN parsed.viewportPosition ELSE Origin,
           zoomLevel |->
             IF "zoomLevel" \in DOMAIN parsed /\ parsed.zoomLevel # Num(0)
             THEN parsed.zoomLevel ELSE ZoomOne,
           gridVisible |->
             IF "gridVisible" \in DOMAIN parsed THEN parsed.gridVisible
             ELSE TRUE,
           history |-> <<<<>>, validElements>>,
           historyIndex |-> 1,
           selectedIds |-> <<>>]
LoadStateFromJson(jsonData) ==
  IF jsonData.kind # "json"
  THEN [ok |-> FALSE]
  ELSE LET parsed == jsonData.value
           persisted == IF "elements" \in DOMAIN parsed THEN parsed.elements
                        ELSE <<>>
           validElements == SelectSeq(persisted, IsValidElement)
       IN [ok |-> TRUE,
           elements |-> validElements,
           viewportPosition |->
             IF "viewportPosition" \in DOMAIN parsed
             THEN parsed.viewportPosition ELSE Origin,
           zoomLevel |->
             IF "zoomLevel" \in DOMAIN parsed /\ parsed.zoomLevel # Num(0)
             THEN parsed.zoomLevel ELSE ZoomOne,
           gridVisible |->
             IF "gridVisible" \in DOMAIN parsed THEN parsed.gridVisible
             ELSE TRUE,
           history |-> <<validElements>>,
           historyIndex |-> 0,
           selectedIds |-> <<>>]

\* loadFromLocalStorage: getItem does not throw, and loadStateFromJson
\* catches its own parse error, so the outer catch is never entered
loadFromLocalStorage_ClearsOnFailure ==
  LET savedData == storage.whiteboard
      backupData == storage.whiteboard_backup
      source == IF savedData.kind = "absent" THEN backupData ELSE savedData
      r == IF source.kind = "absent" THEN [ok |-> FALSE]
           ELSE LoadStateFromJson(source)
  IN /\ IF r.ok
        THEN /\ elements' = r.elements
             /\ viewportPosition' = r.viewportPosition
             /\ zoomLevel' = r.zoomLevel
             /\ gridVisible' = r.gridVisible
             /\ history' = r.history
             /\ historyIndex' = r.historyIndex
             /\ selectedIds' = r.selectedIds
        ELSE /\ elements' = <<>>
             /\ UNCHANGED <<selectedIds, history, historyIndex,
                            viewportPosition, zoomLevel, gridVisible>>
     /\ ret' = [ok |-> r.ok]
     /\ committed' = r.ok
     /\ dropped' = 0
     /\ trip' = NoTrip
     /\ UNCHANGED <<tool, drawingColor, strokeWidth, storage, nextId, board, gestures,
                    textBox, pc>>
loadFromLocalStorage ==
  LET savedData == storage.whiteboard
      backupData == storage.whiteboard_backup
      source == IF savedData.kind = "absent" THEN backupData ELSE savedData
      r == IF source.kind = "absent" THEN [ok |-> FALSE]
           ELSE LoadStateFromJson(source)
  IN /\ IF r.ok
        THEN /\ elements' = r.elements
             /\ viewportPosition' = r.viewportPosition
             /\ zoomLevel' = r.zoomLevel
             /\ gridVisible' = r.gridVisible
             /\ history' = r.history
             /\ historyIndex' = r.historyIndex
             /\ selectedIds' = r.selectedIds
        ELSE UNCHANGED <<doc, viewportPosition, zoomLevel, gridVisible>>
     /\ ret' = [ok |-> r.ok]
     /\ committed' = r.ok
     /\ dropped' = 0
     /\ trip' = NoTrip
     /\ UNCHANGED <<tool, drawingColor, strokeWidth, storage, nextId, board, gestures,
                    textBox, pc>>

\* el.points.length > 1000
DecimationThreshold == 1000

\* the loop for (i = 0; i < points.length; i += 4) push(points[i]): its
\* k-th pass (k = 0, 1, ...) runs with i = 4 * k, and it stops at the first
\* k whose i is not below points.length
LoopIndex_ByTwo(k) == 2 * k
LoopIndex(k) == 4 * k
LoopPasses(len) ==
  CHOOSE k \in 0..len :
    /\ LoopIndex(k) >= len
    /\ \A j \in 0..(k - 1) : LoopIndex(j) < len
SimplifiedPoints(points) ==
  [k \in 1..LoopPasses(Len(points)) |-> points[LoopIndex(k - 1) + 1]]

\* cleanElement: a shallow copy, with the simplified points for a drawing
\* whose points array is longer than the threshold
SanitizedElement(el) ==
  IF el.type = "drawing" /\ "points" \in DOMAIN el
       /\ Len(el.points) > DecimationThreshold
  THEN Spread(el, [points |-> SimplifiedPoints(el.points)])
  ELSE [f \in DOMAIN el |-> el[f]]
SanitizedElements(els) == [i \in 1..Len(els) |-> SanitizedElement(els[i])]

\* JSON.stringify(dataToSave), as the value JSON.parse gives back for it:
\* every value held here is a finite number, a string, a boolean, or an
\* object or array of those
Serialized(els, vp, zoom, grid, now) ==
  Json([elements |-> JsonClone(SanitizedElements(els)),
        viewportPosition |-> [f \in DOMAIN vp |-> vp[f]],
        zoomLevel |-> zoom, gridVisible |-> grid, lastSaved |-> now])

\* the record written under whiteboard_error_fallback
FallbackRecord_NoError(vp, zoom, grid, error, now) ==
  Json([viewportPosition |-> [f \in DOMAIN vp |-> vp[f]], zoomLevel |-> zoom,
        gridVisible |-> grid, timestamp |-> now])
FallbackRecord(vp, zoom, grid, error, now) ==
  Json([viewportPosition |-> [f \in DOMAIN vp |-> vp[f]], zoomLevel |-> zoom,
        gridVisible |-> grid, error |-> error, timestamp |-> now])

\* what saveToLocalStorage leaves in localStorage and returns.  failure is
\* "none", or the statement of the try block that throws: "stringify",
\* "primary" (the first setItem) or "backup" (the second); fallbackThrows
\* tells whether the setItem of the catch block throws as well
SaveResult_BackupStale(store, els, vp, zoom, grid, failure, fallbackThrows, now) ==
  [storage |-> IF failure \in {"none", "backup"}
               THEN [store EXCEPT
                       !.whiteboard = Serialized(els, vp, zoom, grid, now)]
               ELSE store,
   ok |-> failure = "none"]
SaveResult(store, els, vp, zoom, grid, failure, fallbackThrows, now) ==
  LET serialized == Serialized(els, vp, zoom, grid, now)
      tried == CASE failure = "none" ->
                      [store EXCEPT !.whiteboard = serialized,
                                    !.whiteboard_backup = serialized]
                 [] failure = "backup" ->
                      [store EXCEPT !.whiteboard = serialized]
                 [] OTHER -> store
  IN IF failure = "none"
     THEN [storage |-> tried, ok |-> TRUE]
     ELSE [storage |->
             IF fallbackThrows THEN tried
             ELSE [tried EXCEPT !.whiteboard_error_fallback =
                     FallbackRecord(vp, zoom, grid, failure, now)],
           ok |-> FALSE]

\* a save that keeps the simplified points in the store
saveToLocalStorage_WritesBack(failure, fallbackThrows, now) ==
  /\ LET r == SaveResult(storage, elements, viewportPosition, zoomLevel,
                         gridVisible, failure, fallbackThrows, now)
     IN /\ storage' = r.storage
        /\ ret' = [ok |-> r.ok]
  /\ committed' = FALSE
  /\ dropped' = 0
  /\ trip' = NoTrip
  /\ elements' = SanitizedElements(elements)
  /\ UNCHANGED <<selectedIds, history, historyIndex, view, nextId, board, gestures, textBox, pc>>

saveToLocalStorage(failure, fallbackThrows, now) ==
  /\ LET r == SaveResult(storage, elements, viewportPosition, zoomLevel,
                         gridVisible, failure, fallbackThrows, now)
     IN /\ storage' = r.storage
        /\ ret' = [ok |-> r.ok]
  /\ committed' = FALSE
  /\ dropped' = 0
  /\ trip' = NoTrip
  /\ UNCHANGED <<doc, view, nextId, board, gestures, textBox, pc>>

\* what an earlier session may have left under the two keys
StoredElement ==
  BuildElement("rectangle", StoredId, Pos(0, 0), Undefined, 0, 1,
               DEFAULT_COLORS.strokes[1], 2)
StoredPayload ==
  Json([elements |-> <<StoredElement, [id |-> 8, type |-> "rectangle"]>>,
        viewportPosition |-> Origin, zoomLevel |-> ZoomOne,
        gridVisible |-> TRUE])
InitialStorage ==
  { [whiteboard |-> StoredPayload, whiteboard_backup |-> StoredPayload,
      whiteboard_error_fallback |-> Absent] }

\* ------------------------------------------- viewport and Board handlers
\* a call that ends without writing history and returns nothing
NoCommit ==
  /\ committed' = FALSE
  /\ dropped' = 0
  /\ trip' = NoTrip
  /\ ret' = NoRet

\* (screen - stage position) / zoomLevel on both axes: actualX / actualY,
\* mousePointTo, pointTo.  The stage's x and y are viewportPosition.
DocumentPoint(screen, vp, scale) ==
  Pos(RDiv(RSub(screen.x, vp.x), scale), RDiv(RSub(screen.y, vp.y), scale))

\* Math.max(-MAX_PAN_DISTANCE, Math.min(MAX_PAN_DISTANCE, v))
ClampPan(v) == RMax(RSub(Num(0), MAX_PAN_DISTANCE), RMin(MAX_PAN_DISTANCE, v))

\* Math.max(0.1, Math.min(newScale, 5))
ClampZoom(newScale) == RMax(MinZoom, RMin(newScale, MaxZoom))

\* a zoom about a screen point that sets the position as computed
ZoomAbout_NoPanClamp(screen, vp, oldScale, newScale) ==
  LET pointTo == DocumentPoint(screen, vp, oldScale)
      newPos == Pos(RSub(screen.x, RMul(pointTo.x, newScale)),
                    RSub(screen.y, RMul(pointTo.y, newScale)))
  IN [zoomLevel |-> newScale, viewportPosition |-> newPos]

\* the zoomLevel and viewportPosition a zoom about a screen point sets, given
\* the clamped new scale: the document point under the screen point at the
\* old scale, the position that keeps it there, clamped to the pan range
ZoomAbout(screen, vp, oldScale, newScale) ==
  LET pointTo == DocumentPoint(screen, vp, oldScale)
      newPos == Pos(RSub(screen.x, RMul(pointTo.x, newScale)),
                    RSub(screen.y, RMul(pointTo.y, newScale)))
  IN [zoomLevel |-> newScale,
      viewportPosition |-> Pos(ClampPan(newPos.x), ClampPan(newPos.y))]

\* handleWheel that takes the point under the pointer at the new scale
WheelResult_PointAtNewScale(pointer, deltaYNegative, vp, oldScale) ==
  LET newScale == IF deltaYNegative THEN RMul(oldScale, WheelScaleBy)
                  ELSE RDiv(oldScale, WheelScaleBy)
      clampedScale == ClampZoom(newScale)
      mousePointTo == DocumentPoint(pointer, vp, clampedScale)
      newPos == Pos(RSub(pointer.x, RMul(mousePointTo.x, oldScale)),
                    RSub(pointer.y, RMul(mousePointTo.y, oldScale)))
  IN [zoomLevel |-> clampedScale,
      viewportPosition |-> Pos(ClampPan(newPos.x), ClampPan(newPos.y))]

\* handleWheel: deltaY < 0 zooms in by scaleBy, anything else zooms out
WheelResult(pointer, deltaYNegative, vp, oldScale) ==
  LET newScale == IF deltaYNegative THEN RMul(oldScale, WheelScaleBy)
                  ELSE RDiv(oldScale, WheelScaleBy)
      clampedScale == ClampZoom(newScale)
  IN ZoomAbout(pointer, vp, oldScale, clampedScale)

handleWheel(pointer, deltaYNegative) ==
  /\ gestures < MaxGestures
  /\ LET r == WheelResult(pointer, deltaYNegative, viewportPosition, zoomLevel)
     IN /\ zoomLevel' = r.zoomLevel
        /\ viewportPosition' = r.viewportPosition
  /\ gestures' = gestures + 1
  /\ NoCommit
  /\ UNCHANGED <<doc, tool, gridVisible, drawingColor, strokeWidth, storage,
                 nextId, board, textBox, pc>>

\* the distance between two touches and the point halfway between them
TouchDistance(touch1, touch2) ==
  LET dx == RSub(touch1.x, touch2.x)
      dy == RSub(touch1.y, touch2.y)
  IN RSqrt(RAdd(RMul(dx, dx), RMul(dy, dy)))
TouchCenter(touch1, touch2) ==
  Pos(RDiv(RAdd(touch1.x, touch2.x), Num(2)),
      RDiv(RAdd(touch1.y, touch2.y), Num(2)))

\* the pinch step of handleTouchMove
PinchResult(center, dist, lastPinchDistance, vp, oldScale) ==
  LET scaleChange == RDiv(dist, lastPinchDistance)
      newScale == ClampZoom(RMul(oldScale, scaleChange))
  IN ZoomAbout(center, vp, oldScale, newScale)

\* a pan that moves an axis as far as the clamp allows
PanDelta_UpToTheClamp(pointerPos, lastPointerPosition, vp) ==
  LET dx == RSub(pointerPos.x, lastPointerPosition.x)
      dy == RSub(pointerPos.y, lastPointerPosition.y)
  IN Pos(RSub(ClampPan(RAdd(vp.x, dx)), vp.x),
         RSub(ClampPan(RAdd(vp.y, dy)), vp.y))

\* the delta handlePointerMove passes to moveViewport while panning
PanDelta(pointerPos, lastPointerPosition, vp) ==
  LET dx == RSub(pointerPos.x, lastPointerPosition.x)
      dy == RSub(pointerPos.y, lastPointerPosition.y)
      proposedX == RAdd(vp.x, dx)
      proposedY == RAdd(vp.y, dy)
      clampedX == ClampPan(proposedX)
      clampedY == ClampPan(proposedY)
  IN Pos(IF clampedX = proposedX THEN dx ELSE Num(0),
         IF clampedY = proposedY THEN dy ELSE Num(0))

\* moveViewport(delta)
Moved(vp, delta) == Pos(RAdd(vp.x, delta.x), RAdd(vp.y, delta.y))

\* the elements addPointToDrawing(id, point) leaves
PointAdded(els, id, point) ==
  [i \in 1..Len(els) |->
     IF els[i].id = id /\ els[i].type = "drawing"
     THEN Spread(els[i], [points |-> els[i].points \o <<point.x, point.y>>])
     ELSE els[i]]

\* toggleGrid()
toggleGrid ==
  /\ gridVisible' = ~gridVisible
  /\ NoCommit
  /\ UNCHANGED <<doc, tool, zoomLevel, drawingColor, strokeWidth,
                 viewportPosition, storage, nextId, board, gestures, textBox, pc>>

\* setTool(tool)
setTool(newTool) ==
  /\ tool' = newTool
  /\ NoCommit
  /\ UNCHANGED <<doc, zoomLevel, gridVisible, drawingColor, strokeWidth,
                 viewportPosition, storage, nextId, board, gestures, textBox, pc>>

\* handlePointerDown: clickedOnEmpty is e.target === e.currentTarget, panKey
\* is the middle button or the Ctrl / Meta key, colorIdx the palette entry
\* Math.random() picks for a sticky note.  The image tool only opens the
\* file dialog.
handlePointerDown(pointerPos, clickedOnEmpty, panKey, colorIdx) ==
  LET actual == DocumentPoint(pointerPos, viewportPosition, zoomLevel)
      draws == clickedOnEmpty /\ tool = "drawing"
      creates == clickedOnEmpty
                   /\ tool \in {"drawing", "sticky", "text", "rectangle", "ellipse"}
      pans == clickedOnEmpty /\ (tool = "hand" \/ (tool = "select" /\ panKey))
      id == nextId
      element == BuildElement(tool, id, actual, Undefined, Len(elements),
                              colorIdx, drawingColor, strokeWidth)
      r == AddElementResult(element, elements, history, historyIndex)
  IN /\ creates => (nextId <= MaxIds /\ CanCommit)
     /\ selectedIds' = IF clickedOnEmpty THEN <<>> ELSE selectedIds
     /\ IF creates
        THEN /\ elements' = r.elements
             /\ history' = r.history
             /\ historyIndex' = r.historyIndex
             /\ nextId' = nextId + 1
             /\ committed' = TRUE
             /\ dropped' = Dropped(history, historyIndex)
        ELSE /\ UNCHANGED <<elements, history, historyIndex, nextId>>
             /\ committed' = FALSE
             /\ dropped' = 0
     /\ board' = [board EXCEPT !.lastPointerPosition = pointerPos,
                               !.isPanning = @ \/ pans,
                               !.isDrawing = @ \/ draws,
                               !.currentDrawingId = IF draws THEN id ELSE @]
     /\ trip' = NoTrip
     /\ ret' = NoRet
     /\ UNCHANGED <<view, storage, gestures, textBox, pc>>

\* handlePointerMove: the drawing branch, then the panning branch
handlePointerMove(pointerPos) ==
  LET actual == DocumentPoint(pointerPos, viewportPosition, zoomLevel)
      draws == board.isDrawing /\ board.currentDrawingId # NoId
      delta == PanDelta(pointerPos, board.lastPointerPosition, viewportPosition)
  IN /\ draws => \A i \in DOMAIN elements :
                   (elements[i].id = board.currentDrawingId
                      /\ elements[i].type = "drawing")
                     => Len(elements[i].points) + 2 <= MaxPoints
     /\ board.isPanning => gestures < MaxGestures
     /\ elements' = IF draws
                    THEN PointAdded(elements, board.currentDrawingId, actual)
                    ELSE elements
     /\ IF board.isPanning
        THEN /\ viewportPosition' = Moved(viewportPosition, delta)
             /\ board' = [board EXCEPT !.lastPointerPosition = pointerPos]
             /\ gestures' = gestures + 1
        ELSE UNCHANGED <<viewportPosition, board, gestures>>
     /\ NoCommit
     /\ UNCHANGED <<selectedIds, history, historyIndex, tool, zoomLevel,
                    gridVisible, drawingColor, strokeWidth, storage, nextId,
                    textBox, pc>>

\* a pointer-up that ends the session but keeps the drawing id
Released_KeepsId(b) ==
  [b EXCEPT !.isDrawing = FALSE, !.isPanning = FALSE]

\* the refs handlePointerUp leaves
Released(b) ==
  [b EXCEPT !.isDrawing = FALSE,
            !.currentDrawingId = IF b.isDrawing THEN NoId ELSE @,
            !.isPanning = FALSE]

\* what handlePointerUp does to the store: saveToHistory() when a drawing
\* session ends
PointerUpStore ==
  /\ board.isDrawing => CanCommit
  /\ IF board.isDrawing
     THEN LET h == HistoryAfterSave(elements, history, historyIndex)
          IN /\ history' = h.history
             /\ historyIndex' = h.historyIndex
             /\ committed' = TRUE
             /\ dropped' = Dropped(history, historyIndex)
     ELSE /\ UNCHANGED <<history, historyIndex>>
          /\ committed' = FALSE
          /\ dropped' = 0
  /\ trip' = NoTrip
  /\ ret' = NoRet
  /\ UNCHANGED <<elements, selectedIds, view, storage, nextId, gestures, textBox, pc>>

handlePointerUp ==
  /\ PointerUpStore
  /\ board' = Released(board)

\* handleTouchStart: two touches prepare a pinch, anything else is a
\* pointer-down at the touch
handleTouchStart(touches, clickedOnEmpty, panKey, colorIdx) ==
  IF Len(touches) = 2
  THEN /\ board' = [board EXCEPT
                      !.lastPinchDistance = TouchDistance(touches[1], touches[2]),
                      !.pinchCenter = TouchCenter(touches[1], touches[2])]
       /\ NoCommit
       /\ UNCHANGED <<doc, view, storage, nextId, gestures, textBox, pc>>
  ELSE handlePointerDown(touches[1], clickedOnEmpty, panKey, colorIdx)

\* handleTouchMove: with two touches, the first move after the distance was
\* cleared only records it; a pinch whose center is null throws on center.x
\* before anything is written; otherwise the pinch step
handleTouchMove(touches) ==
  IF Len(touches) = 2
  THEN LET dist == TouchDistance(touches[1], touches[2])
       IN /\ IF board.lastPinchDistance = Num(0)
             THEN /\ board' = [board EXCEPT !.lastPinchDistance = dist]
                  /\ UNCHANGED <<zoomLevel, viewportPosition, gestures>>
             ELSE IF board.pinchCenter = Undefined
                  THEN UNCHANGED <<zoomLevel, viewportPosition, board, gestures>>
                  ELSE /\ gestures < MaxGestures
                       /\ LET r == PinchResult(board.pinchCenter, dist,
                                               board.lastPinchDistance,
                                               viewportPosition, zoomLevel)
                          IN /\ zoomLevel' = r.zoomLevel
                             /\ viewportPosition' = r.viewportPosition
                       /\ board' = [board EXCEPT !.lastPinchDistance = dist]
                       /\ gestures' = gestures + 1
          /\ NoCommit
          /\ UNCHANGED <<doc, tool, gridVisible, drawingColor, strokeWidth,
                         storage, nextId, textBox, pc>>
  ELSE handlePointerMove(touches[1])

\* handleTouchEnd: clears the pinch refs, then handlePointerUp()
handleTouchEnd ==
  /\ PointerUpStore
  /\ board' = Released([board EXCEPT !.lastPinchDistance = Num(0),
                                     !.pinchCenter = Undefined])

\* the zoom buttons of the toolbar and of the status bar
handleZoomIn ==
  /\ gestures < MaxGestures
  /\ zoomLevel' = RMin(MaxZoom, RMul(zoomLevel, ButtonScaleBy))
  /\ gestures' = gestures + 1
  /\ NoCommit
  /\ UNCHANGED <<doc, tool, gridVisible, drawingColor, strokeWidth,
                 viewportPosition, storage, nextId, board, textBox, pc>>

handleZoomOut ==
  /\ gestures < MaxGestures
  /\ zoomLevel' = RMax(MinZoom, RDiv(zoomLevel, ButtonScaleBy))
  /\ gestures' = gestures + 1
  /\ NoCommit
  /\ UNCHANGED <<doc, tool, gridVisible, drawingColor, strokeWidth,
                 viewportPosition, storage, nextId, board, textBox, pc>>

handleResetZoom ==
  /\ zoomLevel' = ZoomOne
  /\ NoCommit
  /\ UNCHANGED <<doc, tool, gridVisible, drawingColor, strokeWidth,
                 viewportPosition, storage, nextId, board, gestures, textBox, pc>>

\* ------------------------------------------------------- specification
\* the store as create() builds it, next to a given localStorage
InitialState(stored) ==
  /\ elements = <<>>
  /\ selectedIds = <<>>
  /\ tool = "select"
  /\ zoomLevel = ZoomOne
  /\ gridVisible = TRUE
  /\ history = <<>>
  /\ historyIndex = -1
  /\ drawingColor = DEFAULT_COLORS.strokes[1]
  /\ strokeWidth = 2
  /\ viewportPosition = Origin
  /\ storage = stored
  /\ nextId = 1
  /\ committed = FALSE
  /\ dropped = 0
  /\ ret = NoRet
  /\ trip = NoTrip
  /\ board = InitialBoard
  /\ gestures = 0
  /\ textBox = NoTextBox
  /\ pc = Idle

Init == \E stored \in InitialStorage : InitialState(stored)

\* any call of createElement; only the sticky case draws a colour
CreateStep ==
  \E type \in KindArgs, position \in PositionArgs, size \in SizeArgs :
    \E colorIdx \in (IF type = "sticky" THEN StickyColorArgs ELSE {1}) :
      createElement(type, position, size, colorIdx)

Next ==
  \/ CreateStep
  \/ \E id \in IdArgs, changes \in ChangesArgs : updateElement(id, changes)
  \/ \E id \in IdArgs : duplicateElement(id)
  \/ \E id \in IdArgs : removeElement(id)
  \/ \E id \in SelectArgs, multi \in BOOLEAN : selectElement(id, multi)
  \/ clearSelection
  \/ undo
  \/ redo
  \/ saveToHistory
  \/ \E id \in IdArgs, point \in PointArgs : addPointToDrawing(id, point)
  \/ loadFromLocalStorage
  \/ reset

Spec == Init /\ [][Next]_vars

\* --------------------------------- editing a loaded document of three
\* the ids of the elements an earlier session saved
EditIds == {StoredId, 7, 6}
EditPayload ==
  Json([elements |->
          <<StoredElement,
            BuildElement("rectangle", 7, Pos(0, 0), Undefined, 1, 1,
                         DEFAULT_COLORS.strokes[1], 2),
            BuildElement("rectangle", 6, Pos(0, 0), Undefined, 2, 1,
                         DEFAULT_COLORS.strokes[1], 2)>>,
        viewportPosition |-> Origin, zoomLevel |-> ZoomOne,
        gridVisible |-> TRUE])
EditStorage ==
  [whiteboard |-> EditPayload, whiteboard_backup |-> EditPayload,
   whiteboard_error_fallback |-> Absent]

InitEdit == InitialState(EditStorage)

NextEdit ==
  \/ loadFromLocalStorage
  \/ \E id \in EditIds \cup {NoId}, multi \in BOOLEAN : selectElement(id, multi)
  \/ clearSelection
  \/ \E id \in EditIds : removeElement(id)
  \/ undo
  \/ redo

SpecEdit == InitEdit /\ [][NextEdit]_vars

\* ------------------------------------------------- deleting the selection
\* what one removeElement(id) leaves of the four fields it reads and writes
Removed(st, id) ==
  LET els == FilterOutId(st.elements, id)
      h == HistoryAfterSave(els, st.history, st.historyIndex)
  IN [elements |-> els, selectedIds |-> FilterOut(st.selectedIds, id),
      history |-> h.history, historyIndex |-> h.historyIndex]

\* for (const id of selectedIds) removeElement(id): the loop runs over the
\* array read before it, from its i-th entry on
RECURSIVE RemovedFrom(_, _, _)
RemovedFrom(ids, i, st) ==
  IF i > Len(ids) THEN st ELSE RemovedFrom(ids, i + 1, Removed(st, ids[i]))

\* a delete that filters all selected elements out and saves once
DeleteSelected_OneSnapshot(st) ==
  LET els == SelectSeq(st.elements,
                       LAMBDA e : e.id \notin IdsOfSeq(st.selectedIds))
      h == HistoryAfterSave(els, st.history, st.historyIndex)
  IN [elements |-> els, selectedIds |-> <<>>,
      history |-> h.history, historyIndex |-> h.historyIndex]
\* the store after the loop of the delete action
DeleteSelected(st) == RemovedFrom(st.selectedIds, 1, st)

\* room for one snapshot per selected id, one more than CanCommit leaves
CanCommitAll(k) == historyIndex + k <= MaxHistory

\* the Delete / Backspace key and the toolbar's delete button
handleDeleteSelected ==
  /\ CanCommitAll(Len(selectedIds))
  /\ LET r == DeleteSelected([elements |-> elements,
                              selectedIds |-> selectedIds,
                              history |-> history,
                              historyIndex |-> historyIndex])
     IN /\ elements' = r.elements
        /\ selectedIds' = r.selectedIds
        /\ history' = r.history
        /\ historyIndex' = r.historyIndex
  /\ committed' = (selectedIds # <<>>)
  /\ dropped' = IF selectedIds # <<>> THEN Dropped(history, historyIndex)
                ELSE 0
  /\ trip' = NoTrip
  /\ ret' = NoRet
  /\ UNCHANGED <<view, storage, nextId, board, gestures, textBox, pc>>

NextDelete ==
  \/ loadFromLocalStorage
  \/ \E id \in EditIds \cup {NoId}, multi \in BOOLEAN : selectElement(id, multi)
  \/ handleDeleteSelected
  \/ undo
  \/ redo

SpecDelete == InitEdit /\ [][NextDelete]_vars

\* ------------------------------------------------ panning and zooming
\* where the pointer and the touches may be
PointerArgs == {RPos(0, 0), RPos(6000, 100)}
TouchArgs ==
  {<<RPos(0, 0)>>,
   <<RPos(2990, 0), RPos(3010, 0)>>,
   <<RPos(2900, 0), RPos(3100, 0)>>}

\* foreign data under both keys: no elements and a zoomLevel of 50
ViewPayload ==
  Json([elements |-> <<>>, viewportPosition |-> Origin,
        zoomLevel |-> Num(50), gridVisible |-> TRUE])
ViewStorage ==
  [whiteboard |-> ViewPayload, whiteboard_backup |-> ViewPayload,
   whiteboard_error_fallback |-> Absent]

InitView == InitialState(ViewStorage)

WheelStep ==
  \E pointer \in PointerArgs, deltaYNegative \in BOOLEAN :
    handleWheel(pointer, deltaYNegative)
PinchStep == \E touches \in TouchArgs : handleTouchMove(touches)
PanStep == \E pointerPos \in PointerArgs : handlePointerMove(pointerPos)

NextView ==
  \/ WheelStep
  \/ \E touches \in TouchArgs : handleTouchStart(touches, TRUE, TRUE, 1)
  \/ PinchStep
  \/ handleTouchEnd
  \/ \E pointerPos \in PointerArgs : handlePointerDown(pointerPos, TRUE, TRUE, 1)
  \/ PanStep
  \/ handlePointerUp
  \/ handleZoomIn
  \/ handleZoomOut
  \/ handleResetZoom
  \/ loadFromLocalStorage
  \/ reset

SpecView == InitView /\ [][NextView]_vars

\* ------------------------------------- the store one set() call at a time
\* zustand's set() replaces the state and calls every subscriber before it
\* returns, so each set() of an operation is a state of its own. The
\* operations that save call set() and then get().saveToHistory(), which
\* calls set() again; handleWheel calls setZoomLevel and then
\* setViewportPosition. pc holds the operation between its two calls.
DocumentOps == {"createElement", "duplicateElement", "removeElement", "reset"}

\* the set() of addElement, as createElement calls it
createElement_set(type, position, size, colorIdx) ==
  /\ pc = Idle
  /\ nextId <= MaxIds
  /\ CanCommit
  /\ LET id == nextId
         element == BuildElement(type, id, position, size, Len(elements),
                                 colorIdx, drawingColor, strokeWidth)
     IN /\ elements' = Append(elements, Spread(DEFAULT_ELEMENT, element))
        /\ pc' = [op |-> "createElement", id |-> id]
  /\ nextId' = nextId + 1
  /\ committed' = FALSE
  /\ dropped' = 0
  /\ trip' = NoTrip
  /\ UNCHANGED <<selectedIds, history, historyIndex, view, storage, ret,
                 board, gestures, textBox>>

\* the set() of duplicateElement, which is reached when the id is found
duplicateElement_set(id) ==
  /\ pc = Idle
  /\ id \in Ids(elements)
  /\ nextId <= MaxIds
  /\ CanCommit
  /\ elements' = Append(elements, Duplicated(Find(elements, id), nextId))
  /\ pc' = [op |-> "duplicateElement"]
  /\ nextId' = nextId + 1
  /\ committed' = FALSE
  /\ dropped' = 0
  /\ trip' = NoTrip
  /\ UNCHANGED <<selectedIds, history, historyIndex, view, storage, ret,
                 board, gestures, textBox>>

\* the set() of removeElement
removeElement_set(id) ==
  /\ pc = Idle
  /\ CanCommit
  /\ elements' = FilterOutId(elements, id)
  /\ selectedIds' = FilterOut(selectedIds, id)
  /\ pc' = [op |-> "removeElement"]
  /\ committed' = FALSE
  /\ dropped' = 0
  /\ trip' = NoTrip
  /\ UNCHANGED <<history, historyIndex, view, storage, nextId, ret, board,
                 gestures, textBox>>

\* the set() of reset
reset_set ==
  /\ pc = Idle
  /\ elements' = <<>>
  /\ selectedIds' = <<>>
  /\ history' = <<>>
  /\ historyIndex' = -1
  /\ viewportPosition' = Origin
  /\ zoomLevel' = ZoomOne
  /\ pc' = [op |-> "reset"]
  /\ committed' = FALSE
  /\ dropped' = 0
  /\ trip' = NoTrip
  /\ UNCHANGED <<tool, gridVisible, drawingColor, strokeWidth, storage,
                 nextId, ret, board, gestures, textBox>>

\* the get().saveToHistory() that ends each of these operations
saveToHistory_set ==
  /\ pc # Idle
  /\ pc.op \in DocumentOps
  /\ LET h == HistoryAfterSave(elements, history, historyIndex)
     IN /\ history' = h.history
        /\ historyIndex' = h.historyIndex
  /\ ret' = IF pc.op = "createElement" THEN [id |-> pc.id] ELSE NoRet
  /\ pc' = Idle
  /\ committed' = TRUE
  /\ dropped' = Dropped(history, historyIndex)
  /\ trip' = NoTrip
  /\ UNCHANGED <<elements, selectedIds, view, storage, nextId, board,
                 gestures, textBox>>

\* handleWheel up to its setZoomLevel(clampedScale); newPos is computed from
\* the handler's locals, which the store does not change
setZoomLevel_set(pointer, deltaYNegative) ==
  /\ pc = Idle
  /\ gestures < MaxGestures
  /\ LET r == WheelResult(pointer, deltaYNegative, viewportPosition, zoomLevel)
     IN /\ zoomLevel' = r.zoomLevel
        /\ pc' = [op |-> "handleWheel", newPos |-> r.viewportPosition]
  /\ gestures' = gestures + 1
  /\ committed' = FALSE
  /\ dropped' = 0
  /\ trip' = NoTrip
  /\ UNCHANGED <<doc, tool, gridVisible, drawingColor, strokeWidth,
                 viewportPosition, storage, nextId, ret, board, textBox>>

\* the setViewportPosition({ x: clampedX, y: clampedY }) that ends handleWheel
setViewportPosition_set ==
  /\ pc # Idle
  /\ pc.op = "handleWheel"
  /\ viewportPosition' = pc.newPos
  /\ pc' = Idle
  /\ NoCommit
  /\ UNCHANGED <<doc, tool, zoomLevel, gridVisible, drawingColor, strokeWidth,
                 storage, nextId, board, gestures, textBox>>

\* undo and redo call set() once; no handler starts inside another
NextSets ==
  \/ \E type \in KindArgs, position \in PositionArgs, size \in SizeArgs :
       \E colorIdx \in (IF type = "sticky" THEN StickyColorArgs ELSE {1}) :
         createElement_set(type, position, size, colorIdx)
  \/ \E id \in IdArgs : duplicateElement_set(id)
  \/ \E id \in IdArgs : removeElement_set(id)
  \/ reset_set
  \/ saveToHistory_set
  \/ \E pointer \in PointerArgs, deltaYNegative \in BOOLEAN :
       setZoomLevel_set(pointer, deltaYNegative)
  \/ setViewportPosition_set
  \/ pc = Idle /\ undo
  \/ pc = Idle /\ redo

SpecSets == Init /\ [][NextSets]_vars

\* ------------------------------------------------- drawing on the board
\* the tools the toolbar switches between here
ToolArgs == {"select", "drawing", "rectangle"}
\* a browser that holds nothing under either key
EmptyStorage ==
  [whiteboard |-> Absent, whiteboard_backup |-> Absent,
   whiteboard_error_fallback |-> Absent]

InitDraw == InitialState(EmptyStorage)

\* a pointer-down on the stage, without the middle button or Ctrl / Meta
PointerDownStep ==
  \E pointerPos \in PointerArgs, clickedOnEmpty \in BOOLEAN :
    handlePointerDown(pointerPos, clickedOnEmpty, FALSE, 1)

NextDraw ==
  \/ \E newTool \in ToolArgs : setTool(newTool)
  \/ PointerDownStep
  \/ \E pointerPos \in PointerArgs : handlePointerMove(pointerPos)
  \/ handlePointerUp

SpecDraw == InitDraw /\ [][NextDraw]_vars

\* ------------------------------------------------- saving a long stroke
\* the numbers of points a stroke may hold when it is saved: the threshold
\* and up to MaxExtraSamples samples more
PathLengths == {DecimationThreshold + 2 * k : k \in 0..MaxExtraSamples}
\* the stroke as pointer-down at (0, 1) left it, and after the pointer-moves
\* that brought it to n numbers; the value at 0-based index i is i
StrokeAnchor ==
  BuildElement("drawing", 1, Pos(0, 1), Undefined, 0, 1,
               DEFAULT_COLORS.strokes[1], 2)
Stroke(n) == Spread(StrokeAnchor, [points |-> [i \in 1..n |-> i - 1]])

\* what new Date().toISOString() may return, and how a save may fail
TimeArgs == {"T1"}
FailureArgs == {"none", "stringify", "primary", "backup"}

\* the store after a stroke of n numbers was drawn and released
InitSave ==
  \E n \in PathLengths :
    /\ elements = <<Stroke(n)>>
    /\ selectedIds = <<>>
    /\ tool = "drawing"
    /\ zoomLevel = ZoomOne
    /\ gridVisible = TRUE
    /\ history = <<<<StrokeAnchor>>, <<Stroke(n)>>>>
    /\ historyIndex = 1
    /\ drawingColor = DEFAULT_COLORS.strokes[1]
    /\ strokeWidth = 2
    /\ viewportPosition = Origin
    /\ storage = EmptyStorage
    /\ nextId = 2
    /\ committed = TRUE
    /\ dropped = 0
    /\ ret = NoRet
    /\ trip = NoTrip
    /\ board = [InitialBoard EXCEPT !.lastPointerPosition = RPos(0, 1)]
    /\ gestures = 0
    /\ textBox = NoTextBox
    /\ pc = Idle

SaveStep ==
  \E failure \in FailureArgs, fallbackThrows \in BOOLEAN, now \in TimeArgs :
    saveToLocalStorage(failure, fallbackThrows, now)

NextSave ==
  \/ SaveStep
  \/ loadFromLocalStorage
  \/ undo
  \/ redo
  \/ toggleGrid

SpecSave == InitSave /\ [][NextSave]_vars

\* ------------------------------------------------------ saves in a row
\* what new Date().toISOString() returns at two different moments
ClockArgs == {"T1", "T2"}

\* nothing but saves, each at some moment and with any step failing
NextSaves ==
  \E failure \in FailureArgs, fallbackThrows \in BOOLEAN, now \in ClockArgs :
    saveToLocalStorage(failure, fallbackThrows, now)

SpecSaves == InitSave /\ [][NextSaves]_vars

\* -------------------------------------------- save, load and save again
\* strokes below the threshold, just above it, and more than four times it
CycleLengths ==
  {2, DecimationThreshold + 2, 4 * DecimationThreshold + 2}

\* the store after a stroke of one of these lengths was drawn and released
InitCycle ==
  \E n \in CycleLengths :
    /\ elements = <<Stroke(n)>>
    /\ selectedIds = <<>>
    /\ tool = "drawing"
    /\ zoomLevel = ZoomOne
    /\ gridVisible = TRUE
    /\ history = <<<<StrokeAnchor>>, <<Stroke(n)>>>>
    /\ historyIndex = 1
    /\ drawingColor = DEFAULT_COLORS.strokes[1]
    /\ strokeWidth = 2
    /\ viewportPosition = Origin
    /\ storage = EmptyStorage
    /\ nextId = 2
    /\ committed = TRUE
    /\ dropped = 0
    /\ ret = NoRet
    /\ trip = NoTrip
    /\ board = [InitialBoard EXCEPT !.lastPointerPosition = RPos(0, 1)]
    /\ gestures = 0
    /\ textBox = NoTextBox
    /\ pc = Idle

NextCycle ==
  \/ SaveStep
  \/ loadFromLocalStorage

SpecCycle == InitCycle /\ [][NextCycle]_vars

\* ------------------------------------------------ loading what was stored
\* a payload whose elements array holds, between two valid elements, an
\* entry that is no object and an object without a position
MixedPayload ==
  Json([elements |->
          <<[primitive |-> TRUE],
            BuildElement("rectangle", 7, Pos(0, 0), Undefined, 0, 1,
                         DEFAULT_COLORS.strokes[1], 2),
            [id |-> 8, type |-> "rectangle"],
            BuildElement("rectangle", 6, Pos(50, 50), Undefined, 1, 1,
                         DEFAULT_COLORS.strokes[1], 2)>>,
        viewportPosition |-> RPos(10, 20), zoomLevel |-> Num(2),
        gridVisible |-> FALSE])
\* the text of an object that has none of the fields load reads
BarePayload == Json([lastSaved |-> "T1"])

\* what getItem may return for a key
StoredValues ==
  {Absent, Corrupt, Unusable, StoredPayload, MixedPayload, BarePayload}
LoadStorage ==
  {[whiteboard |-> primary, whiteboard_backup |-> backup,
    whiteboard_error_fallback |-> Absent] :
     primary \in StoredValues, backup \in StoredValues}

InitLoad == \E stored \in LoadStorage : InitialState(stored)

NextLoad ==
  \/ loadFromLocalStorage
  \/ createElement("rectangle", Pos(0, 0), Undefined, 1)
  \/ \E id \in SelectArgs, multi \in BOOLEAN : selectElement(id, multi)
  \/ undo
  \/ redo

SpecLoad == InitLoad /\ [][NextLoad]_vars

\* ------------------------------------------------------ the TextBox view
\* TextBox.tsx: the sizes below which a box is not made smaller, and the
\* padding added to the height of the measuring div
MIN_WIDTH == 50
MIN_HEIGHT == 40
TEXT_PADDING == 8

Max(a, b) == IF a >= b THEN a ELSE b

\* the text element the TextBox is mounted for: one that an earlier session
\* stored with the text "Hello", and that was loaded at start
TextElement ==
  Spread(BuildElement("text", StoredId, Pos(0, 0), Undefined, 0, 1,
                      DEFAULT_COLORS.strokes[1], 2),
         [text |-> "Hello"])

\* the TextBox as its first render leaves it: not editing, no textarea, the
\* handleEdit callback closed over the element and isEditing of that render.
\*   handleEdit: the element and isEditing the memoized callback holds
\*   session: the element the handlers of the open textarea hold
\*   value: textarea.value;  firstInput: handleInput is still attached
\*   prevHeight: prevHeightRef.current
\*   widthBefore: the element's width in the store when editing began
\*                (kept for the properties, the code holds no such field)
Mounted(element) ==
  [mounted |-> TRUE, id |-> element.id, isEditing |-> FALSE,
   handleEdit |-> [element |-> element, isEditing |-> FALSE],
   session |-> Undefined, value |-> "", firstInput |-> FALSE,
   prevHeight |-> element.size.height, widthBefore |-> element.size.width]

\* elements.map(el => el.id === id ? { ...el, ...changes } : el)
UpdatedElements(els, id, changes) ==
  [i \in 1..Len(els) |->
     IF els[i].id = id THEN Spread(els[i], changes) ELSE els[i]]

\* what a render after a store or state change leaves, with the effects it
\* runs.  oldEl and wasEditing are the element and isEditing of the render
\* before, newEl the element now, tb the component with its refs as the
\* handler left them, scroll the scrollHeight the measuring div reports.
\*  - useCallback(..., [element.id, element.text, ...]) makes a new
\*    handleEdit only when the text changed
\*  - the auto-height effect runs when text, width or isEditing changed and
\*    the box is not being edited, and writes the measured height when it
\*    differs by more than 5 from the element's and by more than 2 from
\*    prevHeightRef
\*  - the effect on element.size.height copies it to prevHeightRef
AfterRender(tb, oldEl, newEl, wasEditing, scroll) ==
  LET callback == IF newEl.text # oldEl.text
                  THEN [element |-> newEl, isEditing |-> tb.isEditing]
                  ELSE tb.handleEdit
      depsChanged == \/ newEl.text # oldEl.text
                     \/ newEl.size.width # oldEl.size.width
                     \/ wasEditing # tb.isEditing
      measuredHeight == Max(MIN_HEIGHT, scroll + TEXT_PADDING)
      significantChange == Abs(measuredHeight - newEl.size.height) > 5
      notRepeating == Abs(measuredHeight - tb.prevHeight) > 2
      adjusts == /\ depsChanged
                 /\ ~tb.isEditing
                 /\ significantChange
                 /\ notRepeating
      shown == IF adjusts
               THEN Spread(newEl, [size |-> [width |-> newEl.size.width,
                                             height |-> measuredHeight]])
               ELSE newEl
  IN [element |-> shown,
      textBox |-> [tb EXCEPT
                     !.handleEdit = callback,
                     !.prevHeight =
                        IF shown.size.height # oldEl.size.height
                        THEN shown.size.height ELSE tb.prevHeight]]

\* room for one more snapshot: a resize and an edit after the load
CanCommitText == historyIndex + 1 <= MaxHistory

\* handleTransformEnd with transformType "resize" or null (an edge anchor):
\* the width the node was dragged to, the height measured for it, then
\* saveToHistory().  The Transformer exists while the box is selected and
\* not edited; the node sits at element.position.
handleTransformEnd(nodeWidth, scroll) ==
  /\ textBox.mounted
  /\ textBox.id \in IdsOfSeq(selectedIds)
  /\ ~textBox.isEditing
  /\ CanCommitText
  /\ LET element == Find(elements, textBox.id)
         newWidth == Max(MIN_WIDTH, nodeWidth)
         measuredHeight == Max(MIN_HEIGHT, scroll + TEXT_PADDING)
         els == UpdatedElements(elements, element.id,
                  [position |-> element.position,
                   size |-> [width |-> newWidth, height |-> measuredHeight],
                   transform |-> UnitTransform])
         h == HistoryAfterSave(els, history, historyIndex)
         r == AfterRender([textBox EXCEPT !.prevHeight = measuredHeight],
                          element, Find(els, element.id), FALSE, scroll)
     IN /\ elements' = UpdatedElements(els, element.id, r.element)
        /\ history' = h.history
        /\ historyIndex' = h.historyIndex
        /\ textBox' = r.textBox
        /\ pc' = pc
  /\ committed' = TRUE
  /\ dropped' = Dropped(history, historyIndex)
  /\ trip' = NoTrip
  /\ ret' = NoRet
  /\ UNCHANGED <<selectedIds, view, storage, nextId, board, gestures>>

\* syncTextareaSize: the height of the textarea, written to the element
\* with the width of the element the handler is closed over when it
\* differs by more than 2 from prevHeightRef
SyncedSize(tb, closed, els, scroll) ==
  LET measuredHeight == Max(MIN_HEIGHT, scroll)
  IN IF Abs(measuredHeight - tb.prevHeight) > 2
     THEN [elements |->
             UpdatedElements(els, closed.id,
               [size |-> [width |-> closed.size.width,
                          height |-> measuredHeight]]),
           textBox |-> [tb EXCEPT !.prevHeight = measuredHeight]]
     ELSE [elements |-> els, textBox |-> tb]

\* handleEdit, by a double click on the text (shown while not editing): it
\* returns early when the isEditing of its closure is set; else it selects
\* the element, opens a textarea holding the text of its closure's element
\* and syncs the size once
handleEdit(scroll) ==
  /\ textBox.mounted
  /\ ~textBox.isEditing
  /\ ~textBox.handleEdit.isEditing
  /\ LET closed == textBox.handleEdit.element
         element == Find(elements, textBox.id)
         opened == [textBox EXCEPT !.isEditing = TRUE,
                                   !.session = closed,
                                   !.value = closed.text,
                                   !.firstInput = TRUE,
                                   !.widthBefore = element.size.width]
         synced == SyncedSize(opened, closed, elements, scroll)
         r == AfterRender(synced.textBox, element,
                          Find(synced.elements, textBox.id), FALSE, scroll)
     IN /\ selectedIds' = SelectionAfter(selectedIds, closed.id, FALSE)
        /\ elements' = UpdatedElements(synced.elements, textBox.id, r.element)
        /\ textBox' = r.textBox
        /\ pc' = pc
  /\ NoCommit
  /\ UNCHANGED <<history, historyIndex, view, storage, nextId, board,
                 gestures>>

\* an input event in the textarea: handleInput on the first one (it empties
\* the textarea when the box held the placeholder), then syncTextareaSize
handleInput(typed, scroll) ==
  /\ textBox.mounted
  /\ textBox.isEditing
  /\ LET closed == textBox.session
         element == Find(elements, textBox.id)
         isDefaultText == closed.text = "Type to write"
         newValue == IF textBox.firstInput /\ isDefaultText
                        /\ typed \in {"Text", "Type to write"}
                     THEN "" ELSE typed
         synced == SyncedSize([textBox EXCEPT !.value = newValue,
                                              !.firstInput = FALSE],
                              closed, elements, scroll)
         r == AfterRender(synced.textBox, element,
                          Find(synced.elements, textBox.id), TRUE, scroll)
     IN /\ elements' = UpdatedElements(synced.elements, textBox.id, r.element)
        /\ textBox' = r.textBox
        /\ pc' = pc
  /\ NoCommit
  /\ UNCHANGED <<selectedIds, history, historyIndex, view, storage, nextId,
                 board, gestures>>

\* handleBlur: removes the textarea, leaves edit mode, writes the text and
\* the size { width: element.size.width, height: measuredHeight } of the
\* element it is closed over, then saveToHistory()
handleBlur(scroll) ==
  /\ textBox.mounted
  /\ textBox.isEditing
  /\ CanCommitText
  /\ LET closed == textBox.session
         element == Find(elements, textBox.id)
         newText == textBox.value
         measuredHeight == Max(MIN_HEIGHT, scroll)
         closedTb == [textBox EXCEPT !.prevHeight = measuredHeight,
                                     !.isEditing = FALSE,
                                     !.session = Undefined,
                                     !.value = "",
                                     !.firstInput = FALSE]
         els == UpdatedElements(elements, closed.id,
                  [text |-> newText,
                   size |-> [width |-> closed.size.width,
                             height |-> measuredHeight]])
         h == HistoryAfterSave(els, history, historyIndex)
         r == AfterRender(closedTb, element, Find(els, textBox.id), TRUE,
                          scroll)
     IN /\ elements' = UpdatedElements(els, textBox.id, r.element)
        /\ history' = h.history
        /\ historyIndex' = h.historyIndex
        /\ textBox' = r.textBox
        /\ pc' = pc
  /\ committed' = TRUE
  /\ dropped' = Dropped(history, historyIndex)
  /\ trip' = NoTrip
  /\ ret' = NoRet
  /\ UNCHANGED <<selectedIds, view, storage, nextId, board, gestures>>

\* ----------------------------------------------------- editing a text box
\* what the user types, the widths a box is dragged to, and the
\* scrollHeight a measurement reports
TextArgs == {"Hello", "World"}
NodeWidthArgs == {30, 300}
ScrollArgs == {24, 56}

TextPayload ==
  Json([elements |-> <<TextElement>>, viewportPosition |-> Origin,
        zoomLevel |-> ZoomOne, gridVisible |-> TRUE])
TextStorage ==
  [whiteboard |-> TextPayload, whiteboard_backup |-> TextPayload,
   whiteboard_error_fallback |-> Absent]

\* the stored text element was loaded and its TextBox rendered
InitText ==
  /\ elements = <<TextElement>>
  /\ selectedIds = <<>>
  /\ tool = "select"
  /\ zoomLevel = ZoomOne
  /\ gridVisible = TRUE
  /\ history = <<<<TextElement>>>>
  /\ historyIndex = 0
  /\ drawingColor = DEFAULT_COLORS.strokes[1]
  /\ strokeWidth = 2
  /\ viewportPosition = Origin
  /\ storage = TextStorage
  /\ nextId = 1
  /\ committed = TRUE
  /\ dropped = 0
  /\ ret = [ok |-> TRUE]
  /\ trip = NoTrip
  /\ board = InitialBoard
  /\ gestures = 0
  /\ textBox = Mounted(TextElement)
  /\ pc = Idle

ResizeStep ==
  \E nodeWidth \in NodeWidthArgs, scroll \in ScrollArgs :
    handleTransformEnd(nodeWidth, scroll)
EditStep == \E scroll \in ScrollArgs : handleEdit(scroll)
InputStep ==
  \E typed \in TextArgs, scroll \in ScrollArgs : handleInput(typed, scroll)
BlurStep == \E scroll \in ScrollArgs : handleBlur(scroll)

NextText ==
  \/ \E id \in {StoredId, NoId} : selectElement(id, FALSE)
  \/ ResizeStep
  \/ EditStep
  \/ InputStep
  \/ BlurStep

SpecText == InitText /\ [][NextText]_vars

\* ------------------------------------------------- resizing the elements
\* a document an earlier session stored: the text box and one element of
\* each kind that has a Transformer
ResizeIds == {StoredId, 5, 6, 7, 8}
ResizeElements ==
  <<TextElement,
    BuildElement("sticky", 5, Pos(0, 0), Undefined, 1, 1,
                 DEFAULT_COLORS.strokes[1], 2),
    BuildElement("rectangle", 6, Pos(0, 0), Undefined, 2, 1,
                 DEFAULT_COLORS.strokes[1], 2),
    BuildElement("ellipse", 7, Pos(0, 0), Undefined, 3, 1,
                 DEFAULT_COLORS.strokes[1], 2),
    BuildElement("image", 8, Pos(0, 0), Undefined, 4, 1,
                 DEFAULT_COLORS.strokes[1], 2)>>
ResizePayload ==
  Json([elements |-> ResizeElements, viewportPosition |-> Origin,
        zoomLevel |-> ZoomOne, gridVisible |-> TRUE])
ResizeStorage ==
  [whiteboard |-> ResizePayload, whiteboard_backup |-> ResizePayload,
   whiteboard_error_fallback |-> Absent]

\* what the node reports when the Transformer lets go: node.width() * scaleX,
\* node.height() * scaleY and node.rotation()
NodeArgs ==
  {[width |-> 5, height |-> 30, rotation |-> 0],
   [width |-> 30, height |-> 200, rotation |-> 90],
   [width |-> 200, height |-> 5, rotation |-> 0]}
\* Math.min(scaleX, scaleY) of a corner drag of the text box
ScaleFactorArgs == {1, 2}

\* the stored document was loaded and its elements rendered
InitResize ==
  /\ elements = ResizeElements
  /\ selectedIds = <<>>
  /\ tool = "select"
  /\ zoomLevel = ZoomOne
  /\ gridVisible = TRUE
  /\ history = <<ResizeElements>>
  /\ historyIndex = 0
  /\ drawingColor = DEFAULT_COLORS.strokes[1]
  /\ strokeWidth = 2
  /\ viewportPosition = Origin
  /\ storage = ResizeStorage
  /\ nextId = 1
  /\ committed = TRUE
  /\ dropped = 0
  /\ ret = [ok |-> TRUE]
  /\ trip = NoTrip
  /\ board = InitialBoard
  /\ gestures = 0
  /\ textBox = Mounted(TextElement)
  /\ pc = Idle

\* a handler whose Math.max takes 5 for the plain shapes
MinSide_Five(type) == IF type = "sticky" THEN 50 ELSE 5
\* the first argument of Math.max in handleTransformEnd of StickyNote (50)
\* and of RectangleShape, EllipseShape and ImageElement (10)
MinSide(type) == IF type = "sticky" THEN 50 ELSE 10

\* handleTransformEnd of StickyNote, RectangleShape, EllipseShape and
\* ImageElement: the size the node was dragged to, each side raised to the
\* minimum, the scale written back as 1, then saveToHistory().  The
\* Transformer exists while the element is selected; the node sits at
\* element.position.
handleShapeTransformEnd(id, node) ==
  /\ id \in Ids(elements)
  /\ id \in IdsOfSeq(selectedIds)
  /\ Find(elements, id).type \in {"sticky", "rectangle", "ellipse", "image"}
  /\ CanCommitText
  /\ LET element == Find(elements, id)
         min == MinSide(element.type)
         els == UpdatedElements(elements, id,
                  [position |-> element.position,
                   size |-> [width |-> Max(min, node.width),
                             height |-> Max(min, node.height)],
                   transform |-> [rotation |-> node.rotation,
                                  scaleX |-> 1, scaleY |-> 1]])
         h == HistoryAfterSave(els, history, historyIndex)
     IN /\ elements' = els
        /\ history' = h.history
        /\ historyIndex' = h.historyIndex
  /\ committed' = TRUE
  /\ dropped' = Dropped(history, historyIndex)
  /\ trip' = NoTrip
  /\ ret' = NoRet
  /\ UNCHANGED <<selectedIds, view, storage, nextId, board, gestures,
                 textBox, pc>>

\* handleTransformEnd of TextBox with transformType "scale" (a corner
\* anchor): the font size scaled and kept at 12 or more, the width the node
\* was dragged to, the height measured for it, then saveToHistory()
handleTransformEndScale(nodeWidth, scaleFactor, scroll) ==
  /\ textBox.mounted
  /\ textBox.id \in IdsOfSeq(selectedIds)
  /\ ~textBox.isEditing
  /\ CanCommitText
  /\ LET element == Find(elements, textBox.id)
         newWidth == Max(MIN_WIDTH, nodeWidth)
         newFontSize == Max(12, element.fontSize * scaleFactor)
         measuredHeight == Max(MIN_HEIGHT, scroll + TEXT_PADDING)
         els == UpdatedElements(elements, element.id,
                  [position |-> element.position,
                   fontSize |-> newFontSize,
                   size |-> [width |-> newWidth, height |-> measuredHeight],
                   transform |-> UnitTransform])
         h == HistoryAfterSave(els, history, historyIndex)
         r == AfterRender(textBox, element, Find(els, element.id), FALSE,
                          scroll)
     IN /\ elements' = UpdatedElements(els, element.id, r.element)
        /\ history' = h.history
        /\ historyIndex' = h.historyIndex
        /\ textBox' = r.textBox
        /\ pc' = pc
  /\ committed' = TRUE
  /\ dropped' = Dropped(history, historyIndex)
  /\ trip' = NoTrip
  /\ ret' = NoRet
  /\ UNCHANGED <<selectedIds, view, storage, nextId, board, gestures>>

ShapeResizeStep(id) == \E node \in NodeArgs : handleShapeTransformEnd(id, node)
TextScaleStep ==
  \E nodeWidth \in NodeWidthArgs, scaleFactor \in ScaleFactorArgs,
     scroll \in ScrollArgs :
    handleTransformEndScale(nodeWidth, scaleFactor, scroll)

NextResize ==
  \/ \E id \in ResizeIds \cup {NoId} : selectElement(id, FALSE)
  \/ \E id \in ResizeIds : ShapeResizeStep(id)
  \/ ResizeStep
  \/ TextScaleStep

SpecResize == InitResize /\ [][NextResize]_vars

\* ------------------------------------------------------- properties
\* the snapshot under the cursor, history[historyIndex]
Current == history[historyIndex + 1]

\* C1 as stated: in every reachable state with historyIndex >= 0,
\* history[historyIndex] is deep-equal to the current elements.
C1_SnapshotAlwaysEqualsElements ==
  historyIndex >= 0 =>
    (historyIndex + 1 \in DOMAIN history /\ Current = elements)

\* C1 amended: every call that changes history or historyIndex (create,
\* duplicate, remove, commit, undo, redo, load, reset) leaves
\* history[historyIndex] deep-equal to elements.
C1_SnapshotEqualsElementsAfterHistoryWrite ==
  [][(history' # history \/ historyIndex' # historyIndex)
       => /\ historyIndex' >= 0
          /\ historyIndex' + 1 \in DOMAIN history'
          /\ history'[historyIndex' + 1] = elements']_vars

\* a commit that followed an edit: the snapshot under the cursor equals the
\* elements and differs from the one before it
C1_Witness ==
  /\ committed
  /\ historyIndex >= 1
  /\ Current = elements
  /\ history[historyIndex] # elements

\* C2: historyIndex = -1 exactly when history is empty, and otherwise
\* 0 <= historyIndex < history.length.
C2_CursorInRange ==
  /\ (historyIndex = -1) <=> (history = <<>>)
  /\ history # <<>> => (0 <= historyIndex /\ historyIndex < Len(history))

\* the cursor strictly inside a history of several snapshots
C2_Witness ==
  /\ Len(history) >= 2
  /\ 0 <= historyIndex
  /\ historyIndex < Len(history) - 1

\* C3: undo() taken right after a commit and immediately followed by redo()
\* restores elements to what they were before the undo.
C3_UndoRedoRoundTrip ==
  trip.phase = "redone" => elements = trip.pre

\* such a round trip that really moved: the cursor is past the first
\* snapshot and the snapshot before it differs
C3_Witness ==
  /\ trip.phase = "redone"
  /\ historyIndex >= 1
  /\ trip.pre # <<>>
  /\ elements = trip.pre
  /\ history[historyIndex] # trip.pre

\* a call that ends in saveToHistory()
CommitStep ==
  \/ saveToHistory
  \/ CreateStep
  \/ \E id \in Ids(elements) : duplicateElement(id)
  \/ \E id \in IdArgs : removeElement(id)

\* C4: a commit at historyIndex = k with history.length > k + 1 discards
\* every entry beyond k, appends the new snapshot at k + 1, keeps entries
\* 0..k and leaves historyIndex = history.length - 1.
C4_BranchTruncation ==
  [][(CommitStep /\ Len(history) > historyIndex + 1)
       => /\ Len(history') = historyIndex + 2
          /\ \A i \in 1..(historyIndex + 1) : history'[i] = history[i]
          /\ history'[historyIndex + 2] = elements'
          /\ historyIndex' = Len(history') - 1]_vars

\* a commit that discarded redo entries
C4_Witness ==
  /\ committed
  /\ dropped > 0
  /\ historyIndex >= 1
  /\ historyIndex = Len(history) - 1

\* C5: undo() changes nothing when historyIndex <= 0; otherwise it
\* decrements historyIndex by one, sets elements to history[new index],
\* empties selectedIds and leaves history unchanged.
C5_UndoEffect ==
  [][undo => IF historyIndex <= 0
             THEN UNCHANGED <<elements, selectedIds, history, historyIndex>>
             ELSE /\ historyIndex' = historyIndex - 1
                  /\ elements' = history[historyIndex' + 1]
                  /\ selectedIds' = <<>>
                  /\ history' = history]_vars

\* an undo that moved the cursor back and changed the elements
C5_Witness ==
  /\ trip.phase = "undone"
  /\ historyIndex >= 0
  /\ historyIndex + 1 < Len(history)
  /\ elements = Current
  /\ elements # trip.pre
  /\ selectedIds = <<>>

\* C6: redo() changes nothing when historyIndex >= history.length - 1;
\* otherwise it increments historyIndex by one, sets elements to
\* history[new index], empties selectedIds and leaves history unchanged.
C6_RedoEffect ==
  [][redo => IF historyIndex >= Len(history) - 1
             THEN UNCHANGED <<elements, selectedIds, history, historyIndex>>
             ELSE /\ historyIndex' = historyIndex + 1
                  /\ elements' = history[historyIndex' + 1]
                  /\ selectedIds' = <<>>
                  /\ history' = history]_vars

\* a redo that moved the cursor forward to the last snapshot
C6_Witness ==
  /\ trip.phase = "redone"
  /\ Len(history) >= 2
  /\ historyIndex = Len(history) - 1
  /\ elements = Current
  /\ selectedIds = <<>>

\* C7: every id in selectedIds is the id of an element in elements.
C7_SelectedIdsExist ==
  IdsOfSeq(selectedIds) \subseteq Ids(elements)

\* C8: update, duplicate, remove, addPointToDrawing and select called with
\* an id that matches no element leave elements, selectedIds, history and
\* historyIndex unchanged.
C8_MissingIdIsNoOp ==
  [][(\/ \E id \in IdArgs \ Ids(elements) :
           \/ \E changes \in ChangesArgs : updateElement(id, changes)
           \/ duplicateElement(id)
           \/ removeElement(id)
           \/ \E point \in PointArgs : addPointToDrawing(id, point)
      \/ \E id \in (SelectArgs \ {NoId}) \ Ids(elements), multi \in BOOLEAN :
           selectElement(id, multi))
       => UNCHANGED <<elements, selectedIds, history, historyIndex>>]_vars

\* no two entries of a sequence of elements share an id
UniqueIds(els) ==
  \A i, j \in DOMAIN els : i # j => els[i].id # els[j].id

\* every id that an element has been given: those nanoid has returned and
\* those the document and its snapshots hold
IssuedIds ==
  (1..(nextId - 1)) \cup Ids(elements)
    \cup UNION {Ids(history[k]) : k \in DOMAIN history}

\* C9: no two elements in elements ever share an id, and the id given to a
\* created or duplicated element has never been given to an element before.
C9_IdsUniqueAndFresh ==
  /\ [](UniqueIds(elements))
  /\ [][nextId' # nextId
          => /\ elements' # <<>>
             /\ elements'[Len(elements')].id \notin IssuedIds]_vars

\* a duplicate next to its original
C9_Witness ==
  \E i, j \in DOMAIN elements :
    /\ i < j
    /\ elements[i].id # elements[j].id
    /\ elements[j] = Duplicated(elements[i], elements[j].id)

\* C10: create appends exactly one element at the end of elements, leaves
\* the earlier elements unchanged, commits exactly one snapshot, which
\* contains the new element, and returns the id of the appended element.
C10_CreateEffect ==
  [][CreateStep
       => /\ Len(elements') = Len(elements) + 1
          /\ SubSeq(elements', 1, Len(elements)) = elements
          /\ Len(history') = historyIndex + 2
          /\ SubSeq(history', 1, historyIndex + 1)
               = SubSeq(history, 1, historyIndex + 1)
          /\ historyIndex' = historyIndex + 1
          /\ history'[Len(history')] = elements'
          /\ ret' = [id |-> elements'[Len(elements')].id]]_vars

\* a create just returned: the last element carries the returned id and the
\* snapshot under the cursor holds it
C10_Witness ==
  /\ committed
  /\ "id" \in DOMAIN ret
  /\ elements # <<>>
  /\ elements[Len(elements)].id = ret.id
  /\ historyIndex = Len(history) - 1
  /\ Current = elements
  /\ (historyIndex >= 1 => Len(history[historyIndex]) = Len(elements) - 1)

\* C11: update(id, changes) merges changes into the one element whose id
\* matches, leaves every other element and the element order unchanged, and
\* never changes history or historyIndex.
C11_UpdateEffect ==
  [][\A id \in IdArgs, changes \in ChangesArgs :
       updateElement(id, changes)
         => /\ Len(elements') = Len(elements)
            /\ \A i \in DOMAIN elements :
                 IF elements[i].id = id
                 THEN /\ DOMAIN elements'[i]
                           = (DOMAIN elements[i]) \cup (DOMAIN changes)
                      /\ \A f \in DOMAIN changes :
                           elements'[i][f] = changes[f]
                      /\ \A f \in (DOMAIN elements[i]) \ (DOMAIN changes) :
                           elements'[i][f] = elements[i][f]
                 ELSE elements'[i] = elements[i]
            /\ UNCHANGED <<history, historyIndex>>]_vars

\* an update just moved one of two elements: the other is where it was
\* created and the snapshot under the cursor still holds the old position
C11_Witness ==
  /\ ~committed
  /\ Len(elements) >= 2
  /\ \E i, j \in DOMAIN elements :
       /\ elements[i].position = Pos(50, 50)
       /\ elements[j].position = Pos(0, 0)
  /\ historyIndex >= 0
  /\ Len(Current) = Len(elements)
  /\ \A i \in DOMAIN Current : Current[i].position = Pos(0, 0)

\* C12: addPointToDrawing(id, point) appends exactly the two numbers
\* point.x, point.y to the end of the points array of the drawing element
\* with that id, changes nothing when the target is not a drawing, and never
\* changes history, historyIndex or selectedIds.
C12_AddPointEffect ==
  [][\A id \in IdArgs, point \in PointArgs :
       addPointToDrawing(id, point)
         => /\ Len(elements') = Len(elements)
            /\ \A i \in DOMAIN elements :
                 IF elements[i].id = id /\ elements[i].type = "drawing"
                 THEN /\ elements'[i].points
                           = elements[i].points \o <<point.x, point.y>>
                      /\ DOMAIN elements'[i] = DOMAIN elements[i]
                      /\ \A f \in (DOMAIN elements[i]) \ {"points"} :
                           elements'[i][f] = elements[i][f]
                 ELSE elements'[i] = elements[i]
            /\ ((\A i \in DOMAIN elements :
                   elements[i].id = id => elements[i].type # "drawing")
                  => elements' = elements)
            /\ UNCHANGED <<history, historyIndex, selectedIds>>]_vars

\* a drawing that received one sample after its anchor, not yet committed
C12_Witness ==
  /\ ~committed
  /\ \E i \in DOMAIN elements :
       /\ elements[i].type = "drawing"
       /\ elements[i].points = <<0, 0, 7, 7>>
  /\ historyIndex >= 0
  /\ Current # elements

\* C13: duplicate(id) of an existing element appends one element with a
\* fresh id, position equal to the original's plus (20, 20) and all other
\* fields equal to the original's, leaves the original unchanged, and commits
\* exactly one history snapshot.
C13_DuplicateEffect ==
  [][\A id \in Ids(elements) :
       duplicateElement(id)
         => LET original == Find(elements, id)
                copy == elements'[Len(elements')]
            IN /\ Len(elements') = Len(elements) + 1
               /\ SubSeq(elements', 1, Len(elements)) = elements
               /\ copy.id \notin IssuedIds
               /\ copy.position = Pos(original.position.x + 20,
                                      original.position.y + 20)
               /\ DOMAIN copy = DOMAIN original
               /\ \A f \in (DOMAIN original) \ {"id", "position"} :
                    copy[f] = original[f]
               /\ Len(history') = historyIndex + 2
               /\ SubSeq(history', 1, historyIndex + 1)
                    = SubSeq(history, 1, historyIndex + 1)
               /\ historyIndex' = historyIndex + 1
               /\ history'[Len(history')] = elements']_vars

\* a duplicate was just committed: the last element sits 20 right of and 20
\* below an earlier one of the same type, and the snapshot before lacks it
C13_Witness ==
  /\ committed
  /\ historyIndex >= 1
  /\ historyIndex = Len(history) - 1
  /\ Len(elements) >= 2
  /\ Len(history[historyIndex]) = Len(elements) - 1
  /\ \E i \in 1..(Len(elements) - 1) :
       /\ elements[Len(elements)].position
            = Pos(elements[i].position.x + 20, elements[i].position.y + 20)
       /\ elements[Len(elements)].type = elements[i].type
       /\ elements[Len(elements)].zIndex = elements[i].zIndex
       /\ elements[Len(elements)].id # elements[i].id

\* C14: remove(id) of an existing element deletes exactly that element
\* (relative order of the others preserved), removes id from selectedIds
\* while keeping the other selected ids, and commits exactly one history
\* snapshot.
C14_RemoveEffect ==
  [][\A id \in Ids(elements) :
       removeElement(id)
         => /\ \E k \in DOMAIN elements :
                 /\ elements[k].id = id
                 /\ elements' = SubSeq(elements, 1, k - 1)
                                  \o SubSeq(elements, k + 1, Len(elements))
            /\ IdsOfSeq(selectedIds') = IdsOfSeq(selectedIds) \ {id}
            /\ Len(selectedIds') = Cardinality(IdsOfSeq(selectedIds'))
            /\ Len(history') = historyIndex + 2
            /\ SubSeq(history', 1, historyIndex + 1)
                 = SubSeq(history, 1, historyIndex + 1)
            /\ historyIndex' = historyIndex + 1
            /\ history'[Len(history')] = elements']_vars

\* the middle one of three elements was just removed while the other two
\* were selected: both are still there, in order, and still selected
C14_Witness ==
  /\ committed
  /\ historyIndex >= 1
  /\ Len(history[historyIndex]) = 3
  /\ Len(elements) = 2
  /\ elements[1] = history[historyIndex][1]
  /\ elements[2] = history[historyIndex][3]
  /\ IdsOfSeq(selectedIds) = Ids(elements)

\* C15: select(id, multi=false) makes selectedIds exactly {id};
\* select(id, multi=true) toggles membership of id and leaves the other
\* selected ids unchanged, so that a second multi-select of the same id
\* restores the selection; select(null) empties the selection; none of them
\* changes elements or history.
C15_SelectEffect ==
  [][/\ \A id \in EditIds \cup {NoId}, multi \in BOOLEAN :
          selectElement(id, multi)
            => /\ (id = NoId => selectedIds' = <<>>)
               /\ (id # NoId /\ ~multi => selectedIds' = <<id>>)
               /\ (id # NoId /\ multi
                     => /\ (id \in IdsOfSeq(selectedIds'))
                              <=> (id \notin IdsOfSeq(selectedIds))
                        /\ IdsOfSeq(selectedIds') \ {id}
                             = IdsOfSeq(selectedIds) \ {id}
                        /\ IdsOfSeq(SelectionAfter(selectedIds', id, TRUE))
                             = IdsOfSeq(selectedIds))
               /\ UNCHANGED <<elements, history, historyIndex>>
     /\ clearSelection
          => /\ selectedIds' = <<>>
             /\ UNCHANGED <<elements, history, historyIndex>>]_vars

\* a multi-select just added a second id to the selection of a loaded
\* document
C15_Witness ==
  /\ ~committed
  /\ Len(selectedIds) = 2
  /\ selectedIds[1] # selectedIds[2]
  /\ IdsOfSeq(selectedIds) \subseteq Ids(elements)
  /\ historyIndex = 0
  /\ Current = elements

\* zoomLevel within the zoom limits, a position within the pan range
ZoomInRange(scale) == RLe(MinZoom, scale) /\ RLe(scale, MaxZoom)
AxisInBounds(v) ==
  RLe(RSub(Num(0), MAX_PAN_DISTANCE), v) /\ RLe(v, MAX_PAN_DISTANCE)
InBounds(position) == AxisInBounds(position.x) /\ AxisInBounds(position.y)

\* C16: in every reachable state zoomLevel lies in [0.1, 5], after any
\* sequence of wheel zooms, pinch zooms, zoom-in, zoom-out and reset-zoom
\* actions, load and reset.
C16_ZoomLevelInRange == ZoomInRange(zoomLevel)

\* C17: starting from a viewportPosition within bounds, both coordinates of
\* viewportPosition stay within [-10000, 10000] after any sequence of pan,
\* wheel-zoom and pinch-zoom operations.
C17_ViewportInBounds == InBounds(viewportPosition)

\* a zoom whose computed position was beyond the pan range left the
\* viewport on the boundary
C17_Witness ==
  /\ gestures >= 1
  /\ zoomLevel = MaxZoom
  /\ viewportPosition.x = RSub(Num(0), MAX_PAN_DISTANCE)

\* the document point under a screen point is the same before and after
\* the step
SamePointUnder(screen) ==
  DocumentPoint(screen, viewportPosition, zoomLevel)
    = DocumentPoint(screen, viewportPosition', zoomLevel')

\* a pinch step of handleTouchMove: two touches, distance and center set
PinchZoom(touches) ==
  /\ Len(touches) = 2
  /\ board.lastPinchDistance # Num(0)
  /\ board.pinchCenter # Undefined
  /\ handleTouchMove(touches)

\* the position a zoom about a screen point computes before clamping it
Unclamped(screen) ==
  LET pointTo == DocumentPoint(screen, viewportPosition, zoomLevel)
  IN Pos(RSub(screen.x, RMul(pointTo.x, zoomLevel')),
         RSub(screen.y, RMul(pointTo.y, zoomLevel')))

\* C18 as stated: for any zoomLevel in [0.1, 5], any in-bounds
\* viewportPosition and any screen point p, the document point
\* (p - viewportPosition) / zoomLevel is the same before and after a wheel or
\* pinch zoom about p.
C18_FocalPointKept ==
  [][(ZoomInRange(zoomLevel) /\ InBounds(viewportPosition))
       => /\ \A pointer \in PointerArgs, deltaYNegative \in BOOLEAN :
               handleWheel(pointer, deltaYNegative) => SamePointUnder(pointer)
          /\ \A touches \in TouchArgs :
               PinchZoom(touches) => SamePointUnder(board.pinchCenter)]_vars

\* C18 amended: the document point under p is the same before and after a
\* wheel or pinch zoom about p whenever the position the zoom computes,
\* p - doc * newZoom, lies within [-10000, 10000] on both axes; a computed
\* position beyond the pan range is clamped and the point under p moves.
C18_FocalPointKeptUnlessClamped ==
  [][(ZoomInRange(zoomLevel) /\ InBounds(viewportPosition))
       => /\ \A pointer \in PointerArgs, deltaYNegative \in BOOLEAN :
               (handleWheel(pointer, deltaYNegative)
                  /\ InBounds(Unclamped(pointer)))
                 => SamePointUnder(pointer)
          /\ \A touches \in TouchArgs :
               (PinchZoom(touches) /\ InBounds(Unclamped(board.pinchCenter)))
                 => SamePointUnder(board.pinchCenter)]_vars

\* one wheel step in at (6000, 100) from the initial viewport: the zoom is
\* 1.05 and the viewport moved to (-300, -5), which keeps document point
\* (6000, 100) under the pointer
C18_Witness ==
  /\ gestures = 1
  /\ zoomLevel = WheelScaleBy
  /\ viewportPosition = RPos(-300, -5)
  /\ DocumentPoint(RPos(6000, 100), viewportPosition, zoomLevel)
       = RPos(6000, 100)

\* C19: in a pan step each axis is handled on its own: an axis whose
\* proposed position viewportPosition + delta would leave [-10000, 10000]
\* keeps its old value exactly, an axis whose proposed position stays in
\* range receives its full delta.
C19_PanPerAxis ==
  [][\A pointerPos \in PointerArgs :
       (board.isPanning /\ handlePointerMove(pointerPos))
         => LET dx == RSub(pointerPos.x, board.lastPointerPosition.x)
                dy == RSub(pointerPos.y, board.lastPointerPosition.y)
                proposedX == RAdd(viewportPosition.x, dx)
                proposedY == RAdd(viewportPosition.y, dy)
            IN /\ viewportPosition'.x
                    = IF AxisInBounds(proposedX) THEN proposedX
                      ELSE viewportPosition.x
               /\ viewportPosition'.y
                    = IF AxisInBounds(proposedY) THEN proposedY
                      ELSE viewportPosition.y]_vars

\* two pans by (6000, 100): the second would take x to 12000, so x stayed at
\* 6000 while y went on to 200
C19_Witness ==
  /\ board.isPanning
  /\ gestures = 2
  /\ zoomLevel = ZoomOne
  /\ viewportPosition = RPos(6000, 200)
  /\ board.lastPointerPosition = RPos(6000, 100)

\* C20: while a drawing session is active (pointer-down with the drawing
\* tool, not yet released) a further pointer-down on empty canvas is
\* ignored: it creates no element, commits no history and leaves the
\* remembered drawing id unchanged.
C20_PointerDownIgnoredWhileDrawing ==
  [][\A pointerPos \in PointerArgs :
       (board.isDrawing /\ handlePointerDown(pointerPos, TRUE, FALSE, 1))
         => /\ UNCHANGED <<elements, history, historyIndex>>
            /\ board'.currentDrawingId = board.currentDrawingId]_vars

\* C21: a pointer-up while a drawing session is active commits exactly one
\* history snapshot, returns the session to idle and forgets the drawing id,
\* so that later pointer-moves append no points; a pointer-up while idle
\* commits nothing and changes no store state.
C21_PointerUpEffect ==
  [][/\ handlePointerUp
          => IF board.isDrawing
             THEN /\ Len(history') = historyIndex + 2
                  /\ SubSeq(history', 1, historyIndex + 1)
                       = SubSeq(history, 1, historyIndex + 1)
                  /\ historyIndex' = historyIndex + 1
                  /\ history'[Len(history')] = elements
                  /\ elements' = elements
                  /\ ~board'.isDrawing
                  /\ board'.currentDrawingId = NoId
             ELSE UNCHANGED <<doc, view, storage>>
     /\ \A pointerPos \in PointerArgs :
          ((~board.isDrawing \/ board.currentDrawingId = NoId)
             /\ handlePointerMove(pointerPos))
            => elements' = elements]_vars

\* a stroke of two samples was just committed by the pointer-up: the session
\* is idle, the id forgotten, and the snapshot before holds the anchor only
C21_Witness ==
  /\ committed
  /\ ~board.isDrawing
  /\ board.currentDrawingId = NoId
  /\ historyIndex >= 1
  /\ historyIndex = Len(history) - 1
  /\ Current = elements
  /\ Len(elements) = 1
  /\ elements[1].type = "drawing"
  /\ Len(elements[1].points) = 4
  /\ Len(history[historyIndex][1].points) = 2

\* C22: a save that returns true persists, for every drawing of n numbers,
\* the identical points when n <= 1000 (and loading the primary key gives
\* them back), and when n > 1000 exactly ceil(n / 4) numbers: the original
\* values at the indices 0, 4, 8, ... in order, which the load gives back
C22_SaveLoadPoints ==
  [][(SaveStep /\ ret'.ok)
       => LET loaded == LoadStateFromJson(storage'.whiteboard)
          IN /\ loaded.ok
             /\ Len(loaded.elements) = Len(elements)
             /\ \A i \in 1..Len(elements) :
                  elements[i].type = "drawing"
                    => LET original == elements[i].points
                           n == Len(original)
                           persisted == loaded.elements[i].points
                       IN IF n <= 1000
                          THEN persisted = original
                          ELSE /\ Len(persisted) = (n + 3) \div 4
                               /\ \A k \in 1..Len(persisted) :
                                    persisted[k] = original[4 * (k - 1) + 1]]_vars

\* a stroke of more than 1000 numbers was saved and is held decimated
\* under the primary key
C22_Witness ==
  /\ ret = [ok |-> TRUE]
  /\ Len(elements) = 1
  /\ Len(elements[1].points) > 1000
  /\ storage.whiteboard.kind = "json"
  /\ Len(storage.whiteboard.value.elements) = 1
  /\ Len(storage.whiteboard.value.elements[1].points) * 4
       < Len(elements[1].points) + 4
  /\ storage.whiteboard.value.elements[1].points[2] = elements[1].points[5]

\* the k-th pair of a flat points array is the j-th (x, y) sample of another
IsSampleOf(pts, k, original, j) ==
  /\ pts[2 * k - 1] = original[2 * j - 1]
  /\ pts[2 * k] = original[2 * j]

\* C23: a save that returns true persists, for every drawing of more than
\* 1000 numbers, a flat polyline: an even number of values, of which every
\* consecutive pair is an (x, y) sample of the original path, the pairs
\* following the original order
C23_DecimatedIsPolyline ==
  [][(SaveStep /\ ret'.ok)
       => \A i \in 1..Len(elements) :
            (elements[i].type = "drawing"
               /\ Len(elements[i].points) > DecimationThreshold)
              => LET original == elements[i].points
                     persisted == storage'.whiteboard.value.elements[i].points
                     samples == 1..(Len(original) \div 2)
                 IN /\ Len(persisted) % 2 = 0
                    /\ \A k \in 1..(Len(persisted) \div 2) :
                         \E j \in samples :
                           /\ IsSampleOf(persisted, k, original, j)
                           /\ k > 1 =>
                                \E j0 \in 1..(j - 1) :
                                  IsSampleOf(persisted, k - 1, original, j0)]_vars

\* C24: whenever a save returns true, the primary and the backup key hold
\* the identical payload, which contains the current elements (a drawing of
\* more than 1000 numbers with other points, every other field as it is),
\* viewportPosition, zoomLevel and gridVisible
C24_SavedPayload ==
  [][(SaveStep /\ ret'.ok)
       => /\ storage'.whiteboard.kind = "json"
          /\ storage'.whiteboard_backup = storage'.whiteboard
          /\ LET payload == storage'.whiteboard.value
             IN /\ payload.viewportPosition = viewportPosition
                /\ payload.zoomLevel = zoomLevel
                /\ payload.gridVisible = gridVisible
                /\ Len(payload.elements) = Len(elements)
                /\ \A i \in 1..Len(elements) :
                     /\ DOMAIN payload.elements[i] = DOMAIN elements[i]
                     /\ \A f \in DOMAIN elements[i] :
                          \/ payload.elements[i][f] = elements[i][f]
                          \/ /\ f = "points"
                             /\ elements[i].type = "drawing"
                             /\ Len(elements[i].points) > 1000]_vars

\* a save just succeeded after an earlier one had failed and left a fallback
\* record: both keys hold the payload of the document, its grid switched off
C24_Witness ==
  /\ ret = [ok |-> TRUE]
  /\ ~gridVisible
  /\ storage.whiteboard.kind = "json"
  /\ storage.whiteboard_backup = storage.whiteboard
  /\ storage.whiteboard.value.gridVisible = gridVisible
  /\ storage.whiteboard.value.elements = elements
  /\ storage.whiteboard_error_fallback.kind = "json"

\* C25: a save in which JSON.stringify or a setItem throws raises nothing
\* and returns false, leaving the store as it was; the fallback record it
\* writes holds viewportPosition, zoomLevel, gridVisible, error and
\* timestamp and no elements.  The same holds when the write of the
\* fallback record throws too: then the fallback key stays as it was
C25_FailedSave ==
  [][\A failure \in FailureArgs \ {"none"}, fallbackThrows \in BOOLEAN,
        now \in TimeArgs :
       saveToLocalStorage(failure, fallbackThrows, now)
         => /\ ret' = [ok |-> FALSE]
            /\ UNCHANGED <<doc, view>>
            /\ IF fallbackThrows
               THEN storage'.whiteboard_error_fallback
                      = storage.whiteboard_error_fallback
               ELSE /\ storage'.whiteboard_error_fallback.kind = "json"
                    /\ LET record == storage'.whiteboard_error_fallback.value
                       IN /\ DOMAIN record
                               = {"viewportPosition", "zoomLevel",
                                  "gridVisible", "error", "timestamp"}
                          /\ record.viewportPosition = viewportPosition
                          /\ record.zoomLevel = zoomLevel
                          /\ record.gridVisible = gridVisible
                          /\ record.error = failure
                          /\ record.timestamp = now]_vars

\* the first setItem threw on a document that was never saved: false was
\* returned, the two keys are empty and the fallback record names the error
C25_Witness ==
  /\ ret = [ok |-> FALSE]
  /\ storage.whiteboard = Absent
  /\ storage.whiteboard_backup = Absent
  /\ storage.whiteboard_error_fallback.kind = "json"
  /\ storage.whiteboard_error_fallback.value.error = "primary"
  /\ "elements" \notin DOMAIN storage.whiteboard_error_fallback.value
  /\ Len(elements) = 1

\* the entries of a persisted elements array that load must keep: objects
\* carrying an id, a type and a position
KeptEntries(entries) ==
  {i \in 1..Len(entries) :
     /\ "primitive" \notin DOMAIN entries[i]
     /\ "id" \in DOMAIN entries[i]
     /\ "type" \in DOMAIN entries[i]
     /\ "position" \in DOMAIN entries[i]}
\* the k-th smallest index of a set of indices
KthIndex(S, k) == CHOOSE i \in S : Cardinality({j \in S : j < i}) = k - 1
\* the elements array of a stored object, empty when it has none
PersistedEntries(stored) ==
  IF "elements" \in DOMAIN stored.value THEN stored.value.elements ELSE <<>>
\* the valid entries of a stored object, in persisted order
ValidEntries(stored) ==
  LET entries == PersistedEntries(stored)
      kept == KeptEntries(entries)
  IN [k \in 1..Cardinality(kept) |-> entries[KthIndex(kept, k)]]

\* C26: load reads the primary key first and restores from it when it
\* holds a payload; when the primary key is absent or unparsable it
\* restores from the backup key if that holds a payload; it reports failure
\* only if neither key serves
C26_BackupRecovery ==
  [][loadFromLocalStorage
       => LET primary == storage.whiteboard
              backup == storage.whiteboard_backup
          IN /\ primary.kind = "json"
                  => ret'.ok /\ elements' = ValidEntries(primary)
             /\ (primary.kind \in {"absent", "corrupt"} /\ backup.kind = "json")
                  => ret'.ok /\ elements' = ValidEntries(backup)
             /\ ~ret'.ok => primary.kind # "json" /\ backup.kind # "json"]_vars

\* C27: after a successful load the elements are exactly the persisted
\* entries that are objects carrying id, type and position, in persisted
\* order: no invalid entry is kept, no valid one dropped
C27_LoadedElements ==
  [][(loadFromLocalStorage /\ ret'.ok)
       => LET source == IF storage.whiteboard.kind = "json"
                        THEN storage.whiteboard ELSE storage.whiteboard_backup
          IN /\ source.kind = "json"
             /\ elements' = ValidEntries(source)]_vars

\* the payload holding two valid and two invalid entries was loaded: the
\* two valid ones are the elements, in their stored order
C27_Witness ==
  /\ ret = [ok |-> TRUE]
  /\ storage.whiteboard = MixedPayload
  /\ Len(PersistedEntries(storage.whiteboard)) = 4
  /\ Len(elements) = 2
  /\ elements[1].id = 7
  /\ elements[2].id = 6

\* C28: after a successful load, whatever the state before, history holds
\* exactly one snapshot equal to the loaded elements, historyIndex is 0 and
\* the selection is empty, so that undo and redo change nothing
C28_LoadReseedsHistory ==
  [][(loadFromLocalStorage /\ ret'.ok)
       => /\ history' = <<elements'>>
          /\ historyIndex' = 0
          /\ selectedIds' = <<>>
          /\ LET same == [elements |-> elements', historyIndex |-> 0,
                          selectedIds |-> <<>>]
             IN /\ UndoResult(elements', selectedIds', history',
                              historyIndex') = same
                /\ RedoResult(elements', selectedIds', history',
                              historyIndex') = same]_vars

\* a load succeeded in a session that had created an element before: the
\* history is the single snapshot of what was loaded
C28_Witness ==
  /\ ret = [ok |-> TRUE]
  /\ nextId > 1
  /\ Len(elements) >= 1
  /\ elements[1].id = StoredId
  /\ history = <<elements>>
  /\ historyIndex = 0
  /\ selectedIds = <<>>

\* C29: a load that finds no payload under either key (absent, unparsable
\* or unusable) returns false, and a load that returns false leaves every
\* field of the store as it was
C29_FailedLoad ==
  [][loadFromLocalStorage
       => /\ (storage.whiteboard.kind # "json"
                /\ storage.whiteboard_backup.kind # "json")
               => ret' = [ok |-> FALSE]
          /\ ret' = [ok |-> FALSE] => UNCHANGED <<doc, view, storage>>]_vars

\* a load just failed on an unparsable primary key, in a session holding a
\* created and selected element: the document is still there
C29_Witness ==
  /\ ret = [ok |-> FALSE]
  /\ storage.whiteboard = Corrupt
  /\ storage.whiteboard_backup = Unusable
  /\ Len(elements) >= 1
  /\ selectedIds # <<>>
  /\ historyIndex >= 0

\* C30: the blur that ends a text edit writes the textarea's text to the
\* element and leaves its width alone: the width after equals the width the
\* element had before the edit began (and still had when the blur came),
\* and exactly one history snapshot is committed, holding the new text
C30_TextEditKeepsWidth ==
  [][BlurStep
       => LET before == Find(elements, textBox.id)
              after == Find(elements', textBox.id)
          IN /\ after.text = textBox.value
             /\ after.size.width = textBox.widthBefore
             /\ after.size.width = before.size.width
             /\ Len(history') = historyIndex + 2
             /\ historyIndex' = historyIndex + 1
             /\ SubSeq(history', 1, historyIndex + 1)
                  = SubSeq(history, 1, historyIndex + 1)
             /\ Find(history'[Len(history')], textBox.id).text
                  = textBox.value]_vars

\* C38: a save, whether it returns true or false, leaves elements (the
\* points of long drawings included), selectedIds, history, historyIndex,
\* viewportPosition, zoomLevel and gridVisible as they were
C38_SaveKeepsState ==
  [][SaveStep
       => /\ elements' = elements
          /\ selectedIds' = selectedIds
          /\ history' = history
          /\ historyIndex' = historyIndex
          /\ viewportPosition' = viewportPosition
          /\ zoomLevel' = zoomLevel
          /\ gridVisible' = gridVisible]_vars

\* a save just failed after an earlier one had stored the decimated stroke:
\* the store still holds the stroke of more than 1000 numbers
C38_Witness ==
  /\ ret = [ok |-> FALSE]
  /\ storage.whiteboard_error_fallback.kind = "json"
  /\ storage.whiteboard.kind = "json"
  /\ Len(elements) = 1
  /\ Len(elements[1].points) > DecimationThreshold
  /\ Len(storage.whiteboard.value.elements[1].points)
       < Len(elements[1].points)
  /\ historyIndex = 1

\* C39: from empty storage, after any sequence of saves in which any write
\* may fail, the primary and the backup key hold the identical payload
\* whenever both are present
C39_KeysAgree ==
  (storage.whiteboard.kind = "json" /\ storage.whiteboard_backup.kind = "json")
    => storage.whiteboard = storage.whiteboard_backup

\* the last call was a load that succeeded on what a successful save had
\* written under both keys: the store holds what the primary key gave back
JustLoaded ==
  /\ ret = [ok |-> TRUE]
  /\ committed
  /\ storage.whiteboard.kind = "json"
  /\ storage.whiteboard_backup = storage.whiteboard

\* C40: after a save and a load, a second save with no edit in between
\* writes elements identical to those the first save wrote, whatever the
\* length of the drawings
C40_SaveLoadSaveStable ==
  [][(JustLoaded /\ SaveStep /\ ret'.ok)
       => storage'.whiteboard.value.elements
            = storage.whiteboard.value.elements]_vars

\* C33: in every reachable state every drawing's path starts at its
\* position and holds whole (x, y) pairs: points[0] = position.x,
\* points[1] = position.y, and the length is even and at least 2
C33_DrawingAnchored ==
  \A i \in 1..Len(elements) :
    elements[i].type = "drawing"
      => /\ Len(elements[i].points) >= 2
         /\ Len(elements[i].points) % 2 = 0
         /\ elements[i].points[1] = elements[i].position.x
         /\ elements[i].points[2] = elements[i].position.y

\* every element that is in the document before and after a step keeps
\* its zIndex
ZIndexKept ==
  \A i \in 1..Len(elements), j \in 1..Len(elements') :
    elements[i].id = elements'[j].id
      => elements'[j].zIndex = elements[i].zIndex

\* C34: the element that create or duplicate appends gets as zIndex the
\* number of elements present before the append, and remove, undo, redo
\* and select change the zIndex of no element
C34_ZIndexIsInsertionOrder ==
  [][/\ ((CreateStep \/ \E id \in IdArgs : duplicateElement(id))
           /\ Len(elements') = Len(elements) + 1)
          => elements'[Len(elements')].zIndex = Len(elements)
     /\ (\/ \E id \in IdArgs : removeElement(id)
         \/ undo
         \/ redo
         \/ \E id \in SelectArgs, multi \in BOOLEAN : selectElement(id, multi))
          => ZIndexKept]_vars

\* C35: from the initial state (empty history, historyIndex -1) the first
\* create leaves exactly one snapshot, the document with the new element,
\* and historyIndex 0; there undo changes nothing, as at any historyIndex
\* of 0 or below, so no undo leads back to the empty document
C35_FirstCreateIsFloor ==
  [][/\ (CreateStep /\ history = <<>> /\ historyIndex = -1)
          => /\ Len(history') = 1
             /\ historyIndex' = 0
             /\ history'[1] = elements'
             /\ Len(elements') = 1
             /\ UndoResult(elements', selectedIds', history', historyIndex')
                  = [elements |-> elements', historyIndex |-> 0,
                     selectedIds |-> selectedIds']
     /\ (undo /\ historyIndex <= 0) => UNCHANGED doc]_vars

\* the first create of a session that loaded nothing has just returned
C35_Witness ==
  /\ ret = [id |-> 1]
  /\ committed
  /\ Len(elements) = 1
  /\ elements[1].id = 1
  /\ history = <<elements>>
  /\ historyIndex = 0

\* the snapshot at the cursor was written by the pointer-down that began
\* the stroke being drawn: it ends with the drawing the session remembers
StrokeBegunAtCursor ==
  /\ board.isDrawing
  /\ historyIndex >= 0
  /\ Current # <<>>
  /\ Current[Len(Current)].id = board.currentDrawingId

\* C36: a stroke writes two history snapshots.  The pointer-down with the
\* drawing tool on empty canvas appends one, holding the new drawing with
\* its single point; a pointer-move appends none; the pointer-up appends
\* one, holding the full path; and one undo after the pointer-up leaves in
\* elements the snapshot of the pointer-down, the drawing with one point
C36_StrokeSnapshots ==
  [][/\ \A pointerPos \in PointerArgs :
          (tool = "drawing" /\ ~board.isDrawing
             /\ handlePointerDown(pointerPos, TRUE, FALSE, 1))
            => /\ Len(history') = historyIndex + 2
               /\ historyIndex' = historyIndex + 1
               /\ history'[Len(history')] = elements'
               /\ Len(elements') = Len(elements) + 1
               /\ LET drawing == elements'[Len(elements')]
                  IN /\ drawing.id = board'.currentDrawingId
                     /\ drawing.type = "drawing"
                     /\ drawing.points
                          = <<drawing.position.x, drawing.position.y>>
     /\ \A pointerPos \in PointerArgs :
          handlePointerMove(pointerPos)
            => UNCHANGED <<history, historyIndex>>
     /\ (StrokeBegunAtCursor /\ handlePointerUp)
          => /\ Len(history') = historyIndex + 2
             /\ historyIndex' = historyIndex + 1
             /\ SubSeq(history', 1, historyIndex + 1) = history
             /\ history'[Len(history')] = elements
             /\ LET undone == UndoResult(elements', selectedIds', history',
                                         historyIndex')
                    drawing == Find(undone.elements, board.currentDrawingId)
                IN /\ undone.elements = Current
                   /\ undone.historyIndex = historyIndex
                   /\ drawing.points
                        = <<drawing.position.x, drawing.position.y>>]_vars

\* a stroke of pointer-down, one pointer-move and pointer-up has just ended
\* on the empty document: two snapshots, the anchor and the two-sample path
C36_Witness ==
  /\ committed
  /\ ~board.isDrawing
  /\ tool = "drawing"
  /\ nextId = 2
  /\ Len(history) = 2
  /\ historyIndex = 1
  /\ Len(history[1]) = 1
  /\ Len(history[1][1].points) = 2
  /\ history[2] = elements
  /\ Len(elements[1].points) = 4

\* C37: the delete action on k selected elements removes all k, empties
\* the selection and appends exactly k snapshots, the j-th holding the
\* document without the first j of them, so that one undo brings back
\* only the element removed last
C37_DeleteSelected ==
  [][(handleDeleteSelected /\ selectedIds # <<>>
        /\ IdsOfSeq(selectedIds) \subseteq Ids(elements))
       => LET k == Len(selectedIds)
              Without(j) ==
                SelectSeq(elements,
                          LAMBDA e : \A i \in 1..j : e.id # selectedIds[i])
              undone == UndoResult(elements', selectedIds', history',
                                   historyIndex')
          IN /\ elements' = Without(k)
             /\ Len(elements') = Len(elements) - k
             /\ selectedIds' = <<>>
             /\ Len(history') = historyIndex + 1 + k
             /\ historyIndex' = historyIndex + k
             /\ SubSeq(history', 1, historyIndex + 1)
                  = SubSeq(history, 1, historyIndex + 1)
             /\ \A j \in 1..k : history'[historyIndex + 1 + j] = Without(j)
             /\ undone.elements = Without(k - 1)
             /\ Ids(undone.elements) = Ids(elements') \cup {selectedIds[k]}]_vars

\* two of the three loaded elements were selected and deleted: the third
\* is left, nothing is selected, and two snapshots follow the loaded one
C37_Witness ==
  /\ committed
  /\ selectedIds = <<>>
  /\ Len(elements) = 1
  /\ Len(history) = 3
  /\ historyIndex = 2
  /\ Len(history[1]) = 3
  /\ Len(history[2]) = 2
  /\ history[3] = elements

\* C31: every operation that changes several fields of the state changes
\* them in one replacement: no state the store is put in has a field
\* changed while the operation still has a field to write
C31_AtomicUpdates ==
  [][(doc' # doc \/ view' # view) => pc' = Idle]_vars

\* C32: when a resize gesture ends, the element it resized is stored with
\* scaleX = scaleY = 1 and with a size of at least 50 x 50 for a sticky
\* note, 10 x 10 for a rectangle, an ellipse and an image, and 50 wide and
\* 40 high for a text box
C32_ResizeKeepsMinimum ==
  [][\A id \in ResizeIds :
       (ShapeResizeStep(id) \/ (id = textBox.id /\ (ResizeStep \/ TextScaleStep)))
         => LET e == Find(elements', id)
            IN /\ e.transform.scaleX = 1
               /\ e.transform.scaleY = 1
               /\ (e.type = "sticky"
                     => e.size.width >= 50 /\ e.size.height >= 50)
               /\ (e.type \in {"rectangle", "ellipse", "image"}
                     => e.size.width >= 10 /\ e.size.height >= 10)
               /\ (e.type = "text"
                     => e.size.width >= 50 /\ e.size.height >= 40)]_vars

\* a rectangle was dragged to 5 x 30 and is stored as 10 x 30, and a
\* second gesture left another element at a minimum of its own kind
C32_Witness ==
  /\ committed
  /\ historyIndex = 2
  /\ Find(elements, 6).size = [width |-> 10, height |-> 30]
  /\ \/ Find(elements, 5).size = [width |-> 50, height |-> 50]
     \/ Find(elements, StoredId).size.width = 50

====
